---- MODULE Spec2Model ----
(***************************************************************************)
(* A model of the flights-tracker animation core: the sphere coordinate    *)
(* conversions (Utils.js), the per-agent timeline (Flight.js), the CPU and *)
(* GPU instance renderers (InstancedPlanes.js, GPUInstancedPlanes.js), the *)
(* merged trail buffer (MergedFlightPaths.js), the frame loop and GUI      *)
(* callbacks of the application (main.js), the matrix pool (MatrixPool.js),*)
(* the model loading of GLBPlanes.js and the loading screen of main.js.    *)
(*                                                                         *)
(* The specifications that share the module:                               *)
(*   SpecCoords   latLngToVector3 followed by vector3ToLatLng              *)
(*   SpecFlight   one Flight driven by update(dt) calls                    *)
(*   SpecPlanes   the instance renderers and the trails, call by call      *)
(*   Spec         the application: frame ticks and GUI callbacks           *)
(*   SpecPool     one MatrixPool under get, release and withMatrix         *)
(*   SpecGlb      GLBPlanes callers and the loader (FairSpecGlb: a load    *)
(*                in flight ends)                                          *)
(*   SpecLoading  the loading screen, its timers and the texture load      *)
(* Each specification leaves the variables of the others at Idle.          *)
(***************************************************************************)
EXTENDS Integers, Sequences, FiniteSets, TLC

VARIABLES geo, flight, hist, planes, gpu, call, app, frame, paths,
          pool, glb, loading

vars == <<geo, flight, hist, planes, gpu, call, app, frame, paths,
          pool, glb, loading>>

Idle == [pc |-> "idle"]

(***************************************************************************)
(* Bounds of the model.                                                    *)
(***************************************************************************)
MaxRadius == 3
MaxCalls == 5
MaxSlots == 2

MaxCount == 3
MaxFrames == 3
MaxEvents == 3

(***************************************************************************)
(* JavaScript numbers.  A number is <<n, d>>: the rational n/d in lowest   *)
(* terms when d > 0, +Infinity = <<1,0>>, -Infinity = <<-1,0>> and         *)
(* NaN = <<0,0>>.  (Signed zeros and rounding are not modelled.)           *)
(***************************************************************************)
Abs(i) == IF i < 0 THEN -i ELSE i

Sign(i) == IF i < 0 THEN -1 ELSE IF i > 0 THEN 1 ELSE 0

RECURSIVE Gcd(_, _)
Gcd(a, b) == IF b = 0 THEN a ELSE Gcd(b, a % b)

Num(n, d) ==
  IF d = 0 THEN <<Sign(n), 0>>
  ELSE LET g == Gcd(Abs(n), Abs(d))
       IN  <<(Sign(d) * n) \div g, Abs(d) \div g>>

Int2Num(i) == <<i, 1>>

NaN == <<0, 0>>

IsNaN(a) == a = NaN

IsFinite(a) == a[2] > 0

\* a + b
NumAdd(a, b) ==
  IF IsNaN(a) \/ IsNaN(b) THEN NaN
  ELSE IF a[2] = 0 /\ b[2] = 0 THEN (IF a[1] = b[1] THEN a ELSE NaN)
  ELSE IF a[2] = 0 THEN a
  ELSE IF b[2] = 0 THEN b
  ELSE Num(a[1] * b[2] + b[1] * a[2], a[2] * b[2])

\* a / b
NumDiv(a, b) ==
  IF IsNaN(a) \/ IsNaN(b) THEN NaN
  ELSE IF a[2] = 0 /\ b[2] = 0 THEN NaN
  ELSE IF a[2] = 0 THEN <<a[1] * (IF b[1] < 0 THEN -1 ELSE 1), 0>>
  ELSE IF b[2] = 0 THEN <<0, 1>>
  ELSE Num(a[1] * b[2], a[2] * b[1])

\* a >= b (false when either side is NaN)
NumGeq(a, b) ==
  IF IsNaN(a) \/ IsNaN(b) THEN FALSE
  ELSE IF a[2] = 0 /\ b[2] = 0 THEN a[1] >= b[1]
  ELSE IF a[2] = 0 THEN a[1] > 0
  ELSE IF b[2] = 0 THEN b[1] < 0
  ELSE a[1] * b[2] >= b[1] * a[2]

Zero == <<0, 1>>

One == <<1, 1>>

(***************************************************************************)
(* Trigonometry on a grid.  Angles are whole degrees, multiples of Step;   *)
(* Math.sin and Math.cos are tabulated, scaled by Scale and rounded.  The  *)
(* source works in radians: deg * PI / 180 and rad * 180 / PI cancel and   *)
(* are folded into the degree arguments.  Math.acos and Math.atan2 are the *)
(* grid angle whose cosine (direction) is nearest to the argument.         *)
(***************************************************************************)
Step == 30

Scale == 100

SinQ(a) == CASE a = 0 -> 0 [] a = 30 -> 50 [] a = 60 -> 87 [] a = 90 -> 100

SinDeg(a) ==
  LET m == a % 360
  IN  IF m <= 90 THEN SinQ(m)
      ELSE IF m <= 180 THEN SinQ(180 - m)
      ELSE IF m <= 270 THEN -SinQ(m - 180)
      ELSE -SinQ(360 - m)

CosDeg(a) == SinDeg(a + 90)

Grid(lo, hi) == {a \in lo..hi : a % Step = 0}

RECURSIVE SqrtIter(_, _, _)
SqrtIter(n, lo, hi) ==
  IF lo >= hi THEN lo
  ELSE LET mid == (lo + hi + 1) \div 2
       IN  IF mid * mid <= n THEN SqrtIter(n, mid, hi) ELSE SqrtIter(n, lo, mid - 1)

ISqrt(n) == SqrtIter(n, 0, 46340)

\* Math.min(Math.max(value, min), max)
Clamp(value, min, max) ==
  LET lower == IF value > min THEN value ELSE min
  IN  IF lower < max THEN lower ELSE max

\* Math.acos(num / den), den > 0, in degrees 0..180
AcosDeg(num, den) ==
  LET err(a) == Abs(CosDeg(a) * den - num * Scale)
  IN  CHOOSE a \in Grid(0, 180) : \A b \in Grid(0, 180) : err(a) <= err(b)

\* Math.atan2(y, x) in degrees -150..180; atan2(0, 0) = 0
Atan2Deg(y, x) ==
  IF x = 0 /\ y = 0 THEN 0
  ELSE LET dot(a) == x * CosDeg(a) + y * SinDeg(a)
       IN  CHOOSE a \in Grid(-150, 180) : \A b \in Grid(-150, 180) : dot(a) >= dot(b)

(***************************************************************************)
(* SphereCoordinates (Utils.js).  A vector is [x, y, z] in units of        *)
(* 1 / Scale^2.                                                            *)
(***************************************************************************)
latLngToVector3(lat, lng, radius) ==
  LET phi == 90 - lat
      theta == (-lng) + 180
      x == radius * SinDeg(phi) * CosDeg(theta)
      y == radius * CosDeg(phi) * Scale
      z == radius * SinDeg(phi) * SinDeg(theta)
      rotatedX == z
      rotatedY == y
      rotatedZ == -x
  IN  [x |-> rotatedX, y |-> rotatedY, z |-> rotatedZ]

vector3ToLatLng(position, radius) ==
  LET x == -position.z
      y == position.y
      z == position.x
      \* normalize().multiplyScalar(radius): the components keep their
      \* ratios to the length, which is all acos and atan2 read
      len == ISqrt(x * x + y * y + z * z)
      phi == AcosDeg(Clamp(y, -len, len), len)
      theta == Atan2Deg(z, x)
      lat == 90 - phi
      lng == ((theta + 180) % 360) - 180
  IN  [lat |-> lat, lng |-> lng]

Latitudes == Grid(-90, 90)

Longitudes == Grid(-180, 180)

Radii == 1..MaxRadius

GeoInit ==
  \E lat \in Latitudes, lng \in Longitudes, radius \in Radii :
    geo = [pc |-> "start", lat |-> lat, lng |-> lng, radius |-> radius,
           position |-> [x |-> 0, y |-> 0, z |-> 0],
           back |-> [lat |-> 0, lng |-> 0]]

\* the caller converts a coordinate to a point ...
ToVector ==
  /\ geo.pc = "start"
  /\ geo' = [geo EXCEPT !.pc = "vector",
                        !.position = latLngToVector3(geo.lat, geo.lng, geo.radius)]
  /\ UNCHANGED <<pool, glb, loading, paths, flight, hist, planes, gpu, call, app, frame>>

\* ... and the point back to a coordinate
ToLatLng ==
  /\ geo.pc = "vector"
  /\ geo' = [geo EXCEPT !.pc = "done",
                        !.back = vector3ToLatLng(geo.position, geo.radius)]
  /\ UNCHANGED <<pool, glb, loading, paths, flight, hist, planes, gpu, call, app, frame>>

CoordsInit ==
  /\ GeoInit
  /\ flight = Idle /\ hist = Idle /\ planes = Idle /\ gpu = Idle
  /\ call = Idle /\ app = Idle /\ frame = Idle /\ paths = Idle
  /\ pool = Idle /\ glb = Idle /\ loading = Idle

CoordsNext == ToVector \/ ToLatLng

SpecCoords == CoordsInit /\ [][CoordsNext]_vars

IsPole(lat) == lat = 90 \/ lat = -90

\* -180 and 180 name one meridian
SameMeridian(a, b) == (a - b) % 360 = 0

\* C10: for every latitude, longitude and radius > 0 the round trip
\* vector3ToLatLng(latLngToVector3(lat, lng, radius), radius) returns the
\* same latitude and, away from the poles, the same longitude.
C10_RoundTrip ==
  geo.pc = "done" =>
    /\ geo.back.lat = geo.lat
    /\ ~IsPole(geo.lat) => SameMeridian(geo.back.lng, geo.lng)

\* what the code does hold: the latitude comes back, and the longitude comes
\* back mirrored, as 180 - lng wrapped into [-180, 180)
C10_LatitudeAndMirroredLongitude ==
  geo.pc = "done" =>
    /\ geo.back.lat = geo.lat
    /\ ~IsPole(geo.lat) => geo.back.lng = ((180 - geo.lng + 180) % 360) - 180

\* a round trip whose longitude does not come back: lat 0, lng 30 gives lng 150
C10_MirroredInput ==
  /\ geo.pc = "done" /\ geo.lat = 0 /\ geo.lng = 30
  /\ geo.back = [lat |-> 0, lng |-> 150]

(***************************************************************************)
(* Flight (Flight.js): one agent's route, path and timeline.               *)
(***************************************************************************)
EarthRadius == 3000

DefaultSpeed == 500

WaitTimeCurrent == 5

WaitTimeEarlier == 2

surfaceOffset == 5

\* Earth.latLngToVector3(lat, lng): the globe's radius is supplied
EarthLatLngToVector3(lat, lng) == latLngToVector3(lat, lng, EarthRadius)

\* v.clone().normalize().multiplyScalar(length), in whole units
ScaledToLength(v, length) ==
  LET w == [x |-> v.x \div (Scale * Scale), y |-> v.y \div (Scale * Scale),
            z |-> v.z \div (Scale * Scale)]
      len == ISqrt(w.x * w.x + w.y * w.y + w.z * w.z)
  IN  [x |-> (w.x * length) \div len, y |-> (w.y * length) \div len,
       z |-> (w.z * length) \div len]

\* a.distanceTo(b)
DistanceTo(a, b) ==
  ISqrt((a.x - b.x) * (a.x - b.x) + (a.y - b.y) * (a.y - b.y)
        + (a.z - b.z) * (a.z - b.z))

\* curve.getLength() of the CatmullRomCurve3 through the 7 control points.
\* The spline is three.js's; its length is taken as the chord between the
\* two surface points plus an allowance for the climb, in steps of 50, which
\* like the spline's is positive and the same in both directions.
CurveLength(curve) == 50 * ((DistanceTo(curve.start, curve.end) \div 50) + 16)

\* calculateDuration(): duration = pathLength / speed
calculateDuration(f) ==
  LET pathLength == CurveLength(f.curve)
  IN  [f EXCEPT !.duration = NumDiv(Int2Num(pathLength), Int2Num(f.speed))]

\* createFlightPath(): the curve runs from the surface point over the origin
\* to the surface point over the destination (the five points between them
\* are fixed by these two); the duration is recomputed from it
createFlightPath(f) ==
  LET startSurface == ScaledToLength(f.origin, EarthRadius + surfaceOffset)
      endSurface == ScaledToLength(f.destination, EarthRadius + surfaceOffset)
  IN  calculateDuration([f EXCEPT !.curve = [start |-> startSurface, end |-> endSurface]])

\* flightOptions.speed || 500 (a speed of 0 stands for an absent one too)
SpeedOrDefault(speed) == IF speed = 0 THEN DefaultSpeed ELSE speed

\* new Flight(flightOptions, earth, planeRenderer, instanceId, ...)
NewFlight(flightOptions, instanceId, waitTime) ==
  createFlightPath(
    [flightOptions |-> flightOptions,
     departure |-> flightOptions.departure,
     arrival |-> flightOptions.arrival,
     origin |-> EarthLatLngToVector3(flightOptions.departure.lat, flightOptions.departure.lng),
     destination |-> EarthLatLngToVector3(flightOptions.arrival.lat, flightOptions.arrival.lng),
     instanceId |-> instanceId,
     curve |-> [start |-> [x |-> 0, y |-> 0, z |-> 0], end |-> [x |-> 0, y |-> 0, z |-> 0]],
     progress |-> Zero,
     speed |-> SpeedOrDefault(flightOptions.speed),
     duration |-> Zero,
     waitTime |-> waitTime,
     isWaiting |-> FALSE,
     waitTimer |-> Zero])

\* a swapRoute that exchanges departure and arrival and keeps the old path
swapRoute_KeepsPath(f) ==
  [f EXCEPT !.departure = f.arrival, !.arrival = f.departure]

\* swapRoute()
swapRoute(f) ==
  LET tempDeparture == f.departure
      g == [f EXCEPT !.departure = f.arrival, !.arrival = tempDeparture]
  IN  createFlightPath(
        [g EXCEPT !.origin = EarthLatLngToVector3(g.departure.lat, g.departure.lng),
                  !.destination = EarthLatLngToVector3(g.arrival.lat, g.arrival.lng)])

\* a waiting branch that also flies the new leg for the step that ended the dwell
UpdateWaiting_AlsoFlies(f, deltaTime) ==
  LET g == [f EXCEPT !.waitTimer = NumAdd(f.waitTimer, deltaTime)]
  IN  IF NumGeq(g.waitTimer, Int2Num(g.waitTime))
      THEN LET h == swapRoute(g)
           IN  [h EXCEPT !.isWaiting = FALSE, !.waitTimer = Zero,
                         !.progress = NumDiv(deltaTime, h.duration)]
      ELSE g

\* a waiting branch that ends the dwell only once the timer exceeds waitTime
UpdateWaiting_Strict(f, deltaTime) ==
  LET g == [f EXCEPT !.waitTimer = NumAdd(f.waitTimer, deltaTime)]
  IN  IF NumGeq(g.waitTimer, Int2Num(g.waitTime)) /\ g.waitTimer # Int2Num(g.waitTime)
      THEN [swapRoute(g) EXCEPT !.isWaiting = FALSE, !.waitTimer = Zero, !.progress = Zero]
      ELSE g

\* update(deltaTime), the waiting branch
UpdateWaiting(f, deltaTime) ==
  LET g == [f EXCEPT !.waitTimer = NumAdd(f.waitTimer, deltaTime)]
  IN  IF NumGeq(g.waitTimer, Int2Num(g.waitTime))
      THEN [swapRoute(g) EXCEPT !.isWaiting = FALSE, !.waitTimer = Zero, !.progress = Zero]
      ELSE g

\* update(deltaTime), the flying branch
UpdateFlying(f, deltaTime) ==
  LET g == [f EXCEPT !.progress = NumAdd(f.progress, NumDiv(deltaTime, f.duration))]
  IN  IF NumGeq(g.progress, One)
      THEN [g EXCEPT !.progress = One, !.isWaiting = TRUE, !.waitTimer = Zero]
      ELSE g

\* update(deltaTime); the curve is set by the constructor and never cleared
Update(f, deltaTime) ==
  IF f.isWaiting THEN UpdateWaiting(f, deltaTime) ELSE UpdateFlying(f, deltaTime)

\* whether this update(deltaTime) call swaps the route
Swaps(f, deltaTime) ==
  f.isWaiting /\ NumGeq(NumAdd(f.waitTimer, deltaTime), Int2Num(f.waitTime))

(***************************************************************************)
(* SpecFlight: a Flight built from a fixture record and driven by          *)
(* update(dt) calls.  hist records the calls made so far.                  *)
(***************************************************************************)
Airports ==
  { [lat |-> 0, lng |-> 0], [lat |-> 0, lng |-> 90], [lat |-> 0, lng |-> 180],
    [lat |-> 60, lng |-> 30] }

FixtureSpeeds == {0, 250, 500, -500}

FlightData ==
  [departure : Airports, arrival : Airports, speed : FixtureSpeeds]

DeltaTimes == {0, 1, 3, 10}

FlightInit ==
  /\ \E flightOptions \in FlightData, waitTime \in {WaitTimeCurrent, WaitTimeEarlier} :
       /\ flight = NewFlight(flightOptions, 0, waitTime)
       /\ hist = [pc |-> "flight", log |-> << >>, swaps |-> 0, initial |-> flight,
                  before |-> flight, elapsed |-> 0, swapped |-> FALSE]
  /\ geo = Idle /\ planes = Idle /\ gpu = Idle
  /\ call = Idle /\ app = Idle /\ frame = Idle /\ paths = Idle
  /\ pool = Idle /\ glb = Idle /\ loading = Idle

\* one update(dt) call
FlightUpdate(dt) ==
  /\ hist.pc = "flight"
  /\ Len(hist.log) < MaxCalls
  /\ flight' = Update(flight, Int2Num(dt))
  /\ hist' = [hist EXCEPT
       !.log = Append(hist.log, dt),
       !.swaps = hist.swaps + (IF Swaps(flight, Int2Num(dt)) THEN 1 ELSE 0),
       !.swapped = Swaps(flight, Int2Num(dt)),
       !.before = flight,
       \* time accumulated since the leg began
       !.elapsed = IF flight.isWaiting THEN 0 ELSE hist.elapsed + dt]
  /\ UNCHANGED <<pool, glb, loading, paths, geo, planes, gpu, call, app, frame>>

FlightNext == \E dt \in DeltaTimes : FlightUpdate(dt)

SpecFlight == FlightInit /\ [][FlightNext]_vars


(***************************************************************************)
(* Claims about the timeline (SpecFlight).                                 *)
(***************************************************************************)
Called == hist.pc = "flight" /\ Len(hist.log) > 0

LastDt == Int2Num(hist.log[Len(hist.log)])

\* the last call found the Flight Dwelling and brought waitTimer to waitTime
DwellEnded ==
  /\ hist.before.isWaiting
  /\ NumGeq(NumAdd(hist.before.waitTimer, LastDt), Int2Num(hist.before.waitTime))

\* the path and duration createFlightPath derives from a route
PathOf(f) ==
  [start |-> ScaledToLength(EarthLatLngToVector3(f.departure.lat, f.departure.lng),
                            EarthRadius + surfaceOffset),
   end |-> ScaledToLength(EarthLatLngToVector3(f.arrival.lat, f.arrival.lng),
                          EarthRadius + surfaceOffset)]

Route(f) == <<f.departure, f.arrival, f.origin, f.destination, f.curve, f.duration>>

\* C1: after every update(dt) call with dt >= 0, progress is a number within
\* [0,1]: never negative, never above 1, never NaN.
C1_ProgressInUnitInterval ==
  hist.pc = "flight" =>
    /\ IsFinite(flight.progress)
    /\ NumGeq(flight.progress, Zero)
    /\ NumGeq(One, flight.progress)

\* what holds of the code: progress is a number within [0,1] whenever the
\* fixture's speed is positive or absent
C1_ProgressInUnitIntervalPositiveSpeed ==
  (hist.pc = "flight" /\ flight.flightOptions.speed >= 0) =>
    /\ IsFinite(flight.progress)
    /\ NumGeq(flight.progress, Zero)
    /\ NumGeq(One, flight.progress)

\* C2: the update(dt) call that finds the Flight Dwelling and brings waitTimer
\* to waitTime or beyond swaps departure and arrival, regenerates the path
\* from the swapped endpoints, recomputes the duration from the new path and
\* leaves the Flight Flying with progress 0 and waitTimer 0; no other call
\* changes the route, the path or the duration.
C2_SwapExactlyAtDwellEnd ==
  Called =>
    IF DwellEnded
    THEN /\ flight.departure = hist.before.arrival
         /\ flight.arrival = hist.before.departure
         /\ flight.origin = EarthLatLngToVector3(flight.departure.lat, flight.departure.lng)
         /\ flight.destination = EarthLatLngToVector3(flight.arrival.lat, flight.arrival.lng)
         /\ flight.curve = PathOf(flight)
         /\ flight.duration = NumDiv(Int2Num(CurveLength(flight.curve)), Int2Num(flight.speed))
         /\ ~flight.isWaiting
         /\ flight.progress = Zero
         /\ flight.waitTimer = Zero
    ELSE Route(flight) = Route(hist.before)

\* a swap between two different airports has just happened
C2_SwapHappened ==
  /\ Called /\ DwellEnded
  /\ hist.before.departure # hist.before.arrival
  /\ flight.departure = hist.before.arrival

\* C3: the update call at which the time accumulated since the leg began
\* reaches or exceeds duration sets progress to exactly 1 and the state to
\* Dwelling with waitTimer 0; and Dwelling implies progress = 1.
C3_DwellWhenDurationElapsed ==
  /\ (Called /\ ~hist.before.isWaiting
        /\ NumGeq(Int2Num(hist.elapsed), hist.before.duration)) =>
       (flight.progress = One /\ flight.isWaiting /\ flight.waitTimer = Zero)
  /\ (hist.pc = "flight" /\ flight.isWaiting) => flight.progress = One

\* what holds of the code: the same, for a fixture speed that is positive or
\* absent
C3_DwellWhenDurationElapsedPositiveSpeed ==
  (hist.pc = "flight" /\ flight.flightOptions.speed >= 0) => C3_DwellWhenDurationElapsed

\* C4, as stated: with dwell target 2 and a leg of duration 10, update(10)
\* brings progress to 1 and the state to Dwelling, and three further
\* update(1) calls make exactly one swap and leave the Flight Flying with
\* progress 0 and departure and arrival swapped.
ScenarioFlight ==
  /\ hist.pc = "flight"
  /\ hist.initial.waitTime = 2
  /\ hist.initial.duration = Int2Num(10)

EndpointsSwapped ==
  /\ flight.departure = hist.initial.arrival
  /\ flight.arrival = hist.initial.departure

C4_ScenarioEndsAtZero ==
  ScenarioFlight =>
    /\ hist.log = <<10>> => (flight.progress = One /\ flight.isWaiting)
    /\ hist.log = <<10, 1, 1, 1>> =>
         /\ hist.swaps = 1
         /\ ~flight.isWaiting
         /\ flight.progress = Zero
         /\ EndpointsSwapped

\* C4, amended: the second update(1) makes the swap and resets progress to 0;
\* the third is applied to the return leg, so the scenario ends Flying with
\* exactly one swap, the endpoints swapped and progress 1/10.
C4_ScenarioEndsAtOneTenth ==
  ScenarioFlight =>
    /\ hist.log = <<10>> => (flight.progress = One /\ flight.isWaiting)
    /\ hist.log = <<10, 1>> => (flight.isWaiting /\ hist.swaps = 0)
    /\ hist.log = <<10, 1, 1>> =>
         (hist.swaps = 1 /\ ~flight.isWaiting /\ flight.progress = Zero /\ EndpointsSwapped)
    /\ hist.log = <<10, 1, 1, 1>> =>
         /\ hist.swaps = 1
         /\ ~flight.isWaiting
         /\ flight.progress = <<1, 10>>
         /\ EndpointsSwapped

C4_ScenarioRan ==
  /\ ScenarioFlight
  /\ hist.log = <<10, 1, 1, 1>>
  /\ hist.initial.departure # hist.initial.arrival

\* C5: progress never decreases between two consecutive update calls, except
\* in the call that makes the Dwelling -> Flying transition, where it goes
\* from 1 to 0.
C5_ProgressMonotoneWithinLeg ==
  Called =>
    IF DwellEnded
    THEN hist.before.progress = One /\ flight.progress = Zero
    ELSE NumGeq(flight.progress, hist.before.progress)

\* what holds of the code: the same, for a fixture speed that is positive or
\* absent
C5_ProgressMonotonePositiveSpeed ==
  (Called /\ flight.flightOptions.speed >= 0) =>
    IF DwellEnded
    THEN hist.before.progress = One /\ flight.progress = Zero
    ELSE NumGeq(flight.progress, hist.before.progress)


(***************************************************************************)
(* InstancedPlanes (InstancedPlanes.js), the CPU-transform renderer.       *)
(* matrices[i] is instance i's transform; matrixNeedsUpdate is             *)
(* instanceMatrix.needsUpdate, the request to upload the matrices, which   *)
(* the rendering backend clears when it uploads; globalScale is Null until *)
(* setGlobalScale sets it (the constructor leaves the field unset).        *)
(***************************************************************************)
PlaneTypeCount == 8

Null == -1000

Slots(p) == 0..(p.maxCount - 1)

Origin3 == [x |-> 0, y |-> 0, z |-> 0]

\* new THREE.Matrix4().makeScale(0, 0, 0)
ZeroScaleMatrix == [position |-> Origin3, quaternion |-> Origin3, scale |-> 0]

\* new THREE.Matrix4().compose(position, rotation, (s, s, s))
Compose(position, rotation, s) ==
  [position |-> position, quaternion |-> rotation, scale |-> s]

IsZeroScale(m) == m.scale = 0

Min(a, b) == IF a < b THEN a ELSE b

Max(a, b) == IF a > b THEN a ELSE b

\* new InstancedPlanes(maxCount): every instance hidden, a random type each
NewInstancedPlanes(maxCount, draw) ==
  [pc |-> "cpu",
   maxCount |-> maxCount,
   activeCount |-> 0,
   globalScale |-> Null,
   visible |-> TRUE,
   matrices |-> [i \in 0..(maxCount - 1) |-> ZeroScaleMatrix],
   planeTypes |-> [i \in 0..(maxCount - 1) |-> draw[i]],
   matrixNeedsUpdate |-> TRUE,
   planeTypeNeedsUpdate |-> TRUE]

\* setInstanceTransform(instanceId, position, rotation, scale, planeType, triggerUpdate)
setInstanceTransform(p, instanceId, position, rotation, scale, planeType, triggerUpdate) ==
  IF instanceId >= p.maxCount THEN p
  ELSE IF ~p.visible THEN p
  ELSE
    LET finalScale == scale * (IF p.globalScale \in {0, Null} THEN 1 ELSE p.globalScale)
        matrix == Compose(position, rotation, finalScale)
        q == [p EXCEPT !.matrices[instanceId] = matrix,
                       !.matrixNeedsUpdate = (triggerUpdate \/ p.matrixNeedsUpdate)]
    IN  IF planeType # Null
        THEN [q EXCEPT !.planeTypes[instanceId] = Max(0, Min(7, planeType)),
                       !.planeTypeNeedsUpdate = (triggerUpdate \/ p.planeTypeNeedsUpdate)]
        ELSE q

\* a hideInstance that counts the hidden slot out of the active ones
hideInstance_LowersActiveCount(p, instanceId) ==
  IF instanceId >= p.maxCount THEN p
  ELSE [p EXCEPT !.matrices[instanceId] = ZeroScaleMatrix,
                 !.matrixNeedsUpdate = TRUE,
                 !.activeCount = Max(0, p.activeCount - 1)]

\* hideInstance(instanceId)
hideInstance(p, instanceId) ==
  IF instanceId >= p.maxCount THEN p
  ELSE [p EXCEPT !.matrices[instanceId] = ZeroScaleMatrix,
                 !.matrixNeedsUpdate = TRUE]

\* setPlaneType(instanceId, planeType)
setPlaneType(p, instanceId, planeType) ==
  IF instanceId >= p.maxCount THEN p
  ELSE [p EXCEPT !.planeTypes[instanceId] = Max(0, Min(7, planeType)),
                 !.planeTypeNeedsUpdate = TRUE]

\* the loop of setActiveCount, from instance i on
RECURSIVE HideOrRandomize(_, _, _)
HideOrRandomize(p, i, draw) ==
  IF i >= p.maxCount THEN p
  ELSE IF i >= p.activeCount
       THEN HideOrRandomize(hideInstance(p, i), i + 1, draw)
       ELSE HideOrRandomize([p EXCEPT !.planeTypes[i] = draw[i]], i + 1, draw)

\* a setActiveCount whose loop spares the first instance beyond the count
setActiveCount_OffByOne(p, count, draw) ==
  LET q == [p EXCEPT !.activeCount = Min(count, p.maxCount)]
  IN  IF ~q.visible THEN q
      ELSE [HideOrRandomize([q EXCEPT !.activeCount = q.activeCount + 1], 0, draw)
              EXCEPT !.activeCount = q.activeCount, !.planeTypeNeedsUpdate = TRUE]

\* setActiveCount(count); draw[i] is the i-th Math.floor(Math.random() * 8)
setActiveCount(p, count, draw) ==
  LET q == [p EXCEPT !.activeCount = Min(count, p.maxCount)]
  IN  IF ~q.visible THEN q
      ELSE [HideOrRandomize(q, 0, draw) EXCEPT !.planeTypeNeedsUpdate = TRUE]

\* setGlobalScale(scale)
setGlobalScale(p, scale) == [p EXCEPT !.globalScale = scale]

\* forceMatrixUpdate()
forceMatrixUpdate(p) == [p EXCEPT !.matrixNeedsUpdate = TRUE]

\* getMesh().visible = enabled
SetMeshVisible(p, enabled) == [p EXCEPT !.visible = enabled]

\* whether instance i of the CPU renderer is drawn with a non-degenerate shape
CpuSlotVisible(p, i) == p.visible /\ ~IsZeroScale(p.matrices[i])

(***************************************************************************)
(* GPUInstancedPlanes (GPUInstancedPlanes.js): the active count is a       *)
(* uniform the vertex stage tests each instance against.                   *)
(***************************************************************************)
\* one instance's share of flightControlPack1..6 as initializeInstances
\* leaves it: seven zero points, duration 1, a random phase and plane type
InitialPack(phase, planeType) ==
  [points |-> [k \in 1..7 |-> Origin3], duration |-> One, phase |-> phase,
   planeType |-> planeType]

\* new GPUInstancedPlanes(maxCount); phases[i] and draw[i] are instance i's
\* Math.random() * 10.0 and Math.floor(Math.random() * 8)
NewGPUInstancedPlanes(maxCount, phases, draw) ==
  [pc |-> "gpu",
   maxCount |-> maxCount,
   activeCount |-> 0,
   globalScale |-> 1,
   visible |-> TRUE,
   uniforms |-> [activeCount |-> 0, globalScale |-> 1],
   packs |-> [i \in 0..(maxCount - 1) |-> InitialPack(phases[i], draw[i])],
   packsNeedUpdate |-> TRUE]

\* GPUInstancedPlanes.setActiveCount(count)
GpuSetActiveCount(g, count) ==
  LET h == [g EXCEPT !.activeCount = Min(count, g.maxCount)]
  IN  [h EXCEPT !.uniforms.activeCount = h.activeCount]

\* the vertex stage: if (float(gl_InstanceID) >= activeCount) the vertex is
\* collapsed to (0, 0, 0, 0) and the instance is culled
VertexStageCulls(g, instanceID) == instanceID >= g.uniforms.activeCount

GpuSlotVisible(g, i) == g.visible /\ ~VertexStageCulls(g, i)

(***************************************************************************)
(* SpecPlanes: one renderer, CPU or GPU, driven call by call.  call holds  *)
(* the last call and, for setActiveCount, the instances shown before it.   *)
(***************************************************************************)
Draws(maxCount) ==
  { [i \in 0..(maxCount - 1) |-> (i * k) % PlaneTypeCount] : k \in {3, 5} }

\* outcomes of Math.random() * 10.0 per instance
PhaseDraws(maxCount) ==
  { [i \in 0..(maxCount - 1) |-> Int2Num((i * k) % 10)] : k \in {0, 3} }

Positions == { [x |-> 3013, y |-> 0, z |-> 0] }

Rotations == { [x |-> 0, y |-> 0, z |-> 1] }

ScaleArgs == {1}

GlobalScales == {0, 2}

PlaneTypeArgs == {Null, 9}

CountArgs == 0..(MaxSlots + 1)

NoCall == [pc |-> "planes", op |-> "new", count |-> 0, shownBefore |-> {},
           threw |-> FALSE, pushes |-> 0, beyond |-> FALSE, requested |-> 0,
           again |-> FALSE]

CpuLive == call.pc = "planes" /\ planes.pc = "cpu"

GpuLive == call.pc = "planes" /\ gpu.pc = "gpu"

PlanesSetInstanceTransform ==
  /\ CpuLive
  /\ \E instanceId \in CountArgs, position \in Positions, rotation \in Rotations,
        scale \in ScaleArgs, planeType \in PlaneTypeArgs, triggerUpdate \in BOOLEAN :
       /\ planes' = setInstanceTransform(planes, instanceId, position, rotation,
                                         scale, planeType, triggerUpdate)
       /\ call' = [NoCall EXCEPT !.op = "setInstanceTransform",
                                 !.count = instanceId,
                                 !.beyond = (instanceId >= planes.maxCount)]
  /\ UNCHANGED <<pool, glb, loading, paths, geo, flight, hist, gpu, app, frame>>

PlanesHideInstance ==
  /\ CpuLive
  /\ \E instanceId \in CountArgs :
       /\ planes' = hideInstance(planes, instanceId)
       /\ call' = [NoCall EXCEPT !.op = "hideInstance",
                                 !.count = instanceId,
                                 !.again = (call.op = "hideInstance" /\ call.count = instanceId),
                                 !.beyond = (instanceId >= planes.maxCount)]
  /\ UNCHANGED <<pool, glb, loading, paths, geo, flight, hist, gpu, app, frame>>

PlanesSetPlaneType ==
  /\ CpuLive
  /\ \E instanceId \in CountArgs, planeType \in PlaneTypeArgs \ {Null} :
       /\ planes' = setPlaneType(planes, instanceId, planeType)
       /\ call' = [NoCall EXCEPT !.op = "setPlaneType",
                                 !.beyond = (instanceId >= planes.maxCount)]
  /\ UNCHANGED <<pool, glb, loading, paths, geo, flight, hist, gpu, app, frame>>

PlanesSetActiveCount ==
  /\ CpuLive
  /\ \E count \in CountArgs, draw \in Draws(MaxSlots) :
       /\ planes' = setActiveCount(planes, count, draw)
       /\ call' = [NoCall EXCEPT !.op = "setActiveCount", !.count = count,
                     !.shownBefore = {i \in Slots(planes) : ~IsZeroScale(planes.matrices[i])}]
  /\ UNCHANGED <<pool, glb, loading, paths, geo, flight, hist, gpu, app, frame>>

PlanesSetGlobalScale ==
  /\ CpuLive
  /\ \E scale \in GlobalScales : planes' = setGlobalScale(planes, scale)
  /\ call' = [NoCall EXCEPT !.op = "setGlobalScale"]
  /\ UNCHANGED <<pool, glb, loading, paths, geo, flight, hist, gpu, app, frame>>

PlanesForceMatrixUpdate ==
  /\ CpuLive
  /\ planes' = forceMatrixUpdate(planes)
  /\ call' = [NoCall EXCEPT !.op = "forceMatrixUpdate"]
  /\ UNCHANGED <<pool, glb, loading, paths, geo, flight, hist, gpu, app, frame>>

PlanesSetMeshVisible ==
  /\ CpuLive
  /\ \E enabled \in BOOLEAN : planes' = SetMeshVisible(planes, enabled)
  /\ call' = [NoCall EXCEPT !.op = "visible"]
  /\ UNCHANGED <<pool, glb, loading, paths, geo, flight, hist, gpu, app, frame>>

\* the rendering backend draws the mesh: a visible mesh whose matrices are
\* flagged has them uploaded, which clears the flags
PlanesRendered ==
  /\ CpuLive
  /\ planes.visible
  /\ planes' = [planes EXCEPT !.matrixNeedsUpdate = FALSE, !.planeTypeNeedsUpdate = FALSE]
  /\ call' = [NoCall EXCEPT !.op = "render"]
  /\ UNCHANGED <<pool, glb, loading, paths, geo, flight, hist, gpu, app, frame>>

GpuPlanesSetActiveCount ==
  /\ GpuLive
  /\ \E count \in CountArgs :
       /\ gpu' = GpuSetActiveCount(gpu, count)
       /\ call' = [NoCall EXCEPT !.op = "setActiveCount", !.count = count,
                     !.shownBefore = {i \in Slots(gpu) : ~VertexStageCulls(gpu, i)}]
  /\ UNCHANGED <<pool, glb, loading, paths, geo, flight, hist, planes, app, frame>>

GpuPlanesSetMeshVisible ==
  /\ GpuLive
  /\ \E enabled \in BOOLEAN : gpu' = [gpu EXCEPT !.visible = enabled]
  /\ call' = [NoCall EXCEPT !.op = "visible"]
  /\ UNCHANGED <<pool, glb, loading, paths, geo, flight, hist, planes, app, frame>>


pointsPerPath == 100

\* curve.getPointAt(t), t = <<n, d>>: the point a fraction t of the way along
PointAt(curve, t) ==
  [x |-> curve.start.x + ((curve.end.x - curve.start.x) * t[1]) \div t[2],
   y |-> curve.start.y + ((curve.end.y - curve.start.y) * t[1]) \div t[2],
   z |-> curve.start.z + ((curve.end.z - curve.start.z) * t[1]) \div t[2]]

\* curve.getPoints(divisions).length
getPointsLength(divisions) == divisions + 1

\* curve.getPoints(divisions)[i]
getPointsAt(curve, divisions, i) == PointAt(curve, <<i, divisions>>)

\* whether the run of samples written from w.offset on includes sample j:
\* the loop over the points and the break point at offset + pointsPerPath
Covers(w, j) ==
  \/ (j - w.offset) \in 0..(getPointsLength(pointsPerPath) - 1)
  \/ (j = w.offset + pointsPerPath /\ getPointsLength(pointsPerPath) > 0)

\* a buffer of totalPoints samples after the run w is stored in it.  A run
\* past the end of the typed array is dropped; a run at the offset of w is
\* replaced by w; runs that share no sample are kept in the order of their
\* offsets; zeros stored where nothing else is stored leave the buffer as
\* initialize filled it.
StoreRun(writes, w, totalPoints) ==
  LET Overlaps(v) ==
        \E j \in (w.offset)..(w.offset + pointsPerPath) : Covers(v, j) /\ Covers(w, j)
      kept == SelectSeq(writes, LAMBDA v : v.offset # w.offset)
      before == { i \in 1..Len(kept) : Overlaps(kept[i]) \/ kept[i].offset < w.offset }
      k == IF before = {} THEN 0 ELSE CHOOSE i \in before : \A h \in before : h <= i
  IN  IF w.offset >= totalPoints THEN writes
      ELSE IF w.zero /\ ~(\E i \in 1..Len(kept) : Overlaps(kept[i])) THEN kept
      ELSE SubSeq(kept, 1, k) \o <<w>> \o SubSeq(kept, k + 1, Len(kept))

\* the last run of a buffer that covers sample j (0 if none)
LastCovering(writes, j) ==
  LET hits == { i \in 1..Len(writes) : Covers(writes[i], j) }
  IN  IF hits = {} THEN 0 ELSE CHOOSE i \in hits : \A h \in hits : h <= i

\* positions[3j .. 3j+2]
PositionAt(writes, j) ==
  LET i == LastCovering(writes, j)
  IN  IF i = 0 THEN Origin3
      ELSE IF writes[i].zero THEN Origin3
      ELSE IF j = writes[i].offset + pointsPerPath
      THEN getPointsAt(writes[i].curve, pointsPerPath, getPointsLength(pointsPerPath) - 1)
      ELSE getPointsAt(writes[i].curve, pointsPerPath, j - writes[i].offset)

\* colors[3j .. 3j+2]
ColorAt(writes, j) ==
  LET i == LastCovering(writes, j)
  IN  IF i = 0 THEN [hue |-> 0, lightness |-> 0]
      ELSE IF j = writes[i].offset + pointsPerPath
      THEN [hue |-> writes[i].hue, lightness |-> 700]
      ELSE [hue |-> writes[i].hue,
            lightness |-> 300 + ((j - writes[i].offset) * 400)
                                  \div (getPointsLength(pointsPerPath) - 1)]

\* new MergedFlightPaths() followed by initialize(maxFlights)
NewMergedFlightPaths(maxFlights) ==
  [pc |-> "paths",
   maxFlights |-> maxFlights,
   currentFlightCount |-> 0,
   curvesVisible |-> TRUE,
   totalPoints |-> maxFlights * (pointsPerPath + 1),
   positions |-> << >>,
   colors |-> << >>,
   drawRange |-> [start |-> 0, count |-> 0],
   needsPositionUpdate |-> FALSE,
   needsColorUpdate |-> FALSE,
   positionNeedsUpload |-> TRUE,
   colorNeedsUpload |-> TRUE]

\* the body of addFlightPath from the buffer offset on: the loop over the
\* curve's points, the break point, and the pending marks
WritePath(m, pointOffset, curve, flightData) ==
  [m EXCEPT
     !.positions = StoreRun(@, [offset |-> pointOffset, zero |-> FALSE,
                                curve |-> curve, hue |-> 0], m.totalPoints),
     !.colors = StoreRun(@, [offset |-> pointOffset, zero |-> FALSE, curve |-> [start |-> Origin3, end |-> Origin3],
                             hue |-> (flightData.departure.lng + 180) % 360],
                         m.totalPoints),
     !.needsPositionUpdate = TRUE,
     !.needsColorUpdate = TRUE]

\* an addFlightPath whose blocks are pointsPerPath samples apart
addFlightPath_NarrowBlocks(m, flightIndex, curve, flightData) ==
  IF flightIndex >= m.maxFlights THEN m
  ELSE IF ~m.curvesVisible THEN m
  ELSE WritePath(m, flightIndex * pointsPerPath, curve, flightData)

\* an addFlightPath that writes whether or not the curves are visible
addFlightPath_IgnoresVisibility(m, flightIndex, curve, flightData) ==
  IF flightIndex >= m.maxFlights THEN m
  ELSE WritePath(m, flightIndex * (pointsPerPath + 1), curve, flightData)

\* an addFlightPath without the check of flightIndex
addFlightPath_NoCapacityCheck(m, flightIndex, curve, flightData) ==
  IF ~m.curvesVisible THEN m
  ELSE WritePath(m, flightIndex * (pointsPerPath + 1), curve, flightData)

\* addFlightPath(flightIndex, curve, flightData)
addFlightPath(m, flightIndex, curve, flightData) ==
  IF flightIndex >= m.maxFlights THEN m
  ELSE IF ~m.curvesVisible THEN m
  ELSE WritePath(m, flightIndex * (pointsPerPath + 1), curve, flightData)

\* a setVisibleFlightCount that takes count as it comes
setVisibleFlightCount_Unclamped(m, count) ==
  LET n == [m EXCEPT !.currentFlightCount = count]
  IN  [n EXCEPT !.drawRange =
         [start |-> 0,
          count |-> IF n.curvesVisible THEN n.currentFlightCount * (pointsPerPath + 1)
                    ELSE 0]]

\* setVisibleFlightCount(count)
setVisibleFlightCount(m, count) ==
  LET n == [m EXCEPT !.currentFlightCount = Min(count, m.maxFlights)]
  IN  [n EXCEPT !.drawRange =
         [start |-> 0,
          count |-> IF n.curvesVisible THEN n.currentFlightCount * (pointsPerPath + 1)
                    ELSE 0]]

\* setCurvesVisible(visible)
setCurvesVisible(m, visible) ==
  [m EXCEPT !.curvesVisible = visible,
            !.drawRange =
              [start |-> 0,
               count |-> IF visible THEN m.currentFlightCount * (pointsPerPath + 1)
                         ELSE 0]]

\* hideFlightPath(flightIndex)
hideFlightPath(m, flightIndex) ==
  IF flightIndex >= m.maxFlights THEN m
  ELSE LET pointOffset == flightIndex * (pointsPerPath + 1)
       IN  [m EXCEPT
              !.positions = StoreRun(@, [offset |-> pointOffset, zero |-> TRUE,
                                         curve |-> [start |-> Origin3, end |-> Origin3], hue |-> 0], m.totalPoints),
              !.positionNeedsUpload = TRUE]

\* the segments the THREE.LineSegments mesh draws: one between the vertices
\* of each pair (2k, 2k + 1) that lies within the draw range
DrawnSegments(m) ==
  { <<m.drawRange.start + 2 * k, m.drawRange.start + 2 * k + 1>> :
      k \in 0..((m.drawRange.count \div 2) - 1) }

\* applyBatchedUpdates()
applyBatchedUpdates(m) ==
  [m EXCEPT !.positionNeedsUpload = m.needsPositionUpdate \/ @,
            !.needsPositionUpdate = FALSE,
            !.colorNeedsUpload = m.needsColorUpdate \/ @,
            !.needsColorUpdate = FALSE]

\* renderer.render(scene, camera) for the trail geometry: flagged buffers
\* are uploaded and their flags cleared
RenderPaths(m) == [m EXCEPT !.positionNeedsUpload = FALSE, !.colorNeedsUpload = FALSE]

(***************************************************************************)
(* A Flight wired to the plane renderer and the merged paths: update(dt)   *)
(* places the plane through updatePlane, and a route swap rewrites the     *)
(* flight's trail.                                                         *)
(***************************************************************************)
planeOffset == 8

\* curve.getTangentAt(t).normalize(), as the signs of the direction of travel
TangentAt(curve) ==
  [x |-> Sign(curve.end.x - curve.start.x),
   y |-> Sign(curve.end.y - curve.start.y),
   z |-> Sign(curve.end.z - curve.start.z)]

\* position.clone().add(normal.clone().multiplyScalar(planeOffset)), where
\* normal is position.clone().normalize() (which divides by length() || 1)
LiftedPosition(position) ==
  LET length == ISqrt(position.x * position.x + position.y * position.y
                      + position.z * position.z)
      len == IF length = 0 THEN 1 ELSE length
  IN  [x |-> position.x + (position.x * planeOffset) \div len,
       y |-> position.y + (position.y * planeOffset) \div len,
       z |-> position.z + (position.z * planeOffset) \div len]

\* updatePlane(position, tangent, normal) of flight f on renderer p
updatePlane(f, p, position, tangent) ==
  IF ~p.visible THEN p
  ELSE setInstanceTransform(p, f.instanceId, LiftedPosition(position), tangent,
                            1, f.instanceId % PlaneTypeCount, FALSE)

\* update(deltaTime) of flight f with its renderer p and its paths m;
\* wrote tells whether setInstanceTransform stored a transform.  (CHOOSE
\* over { e : g \in {value} } is e with g the value, computed once.)
FlightUpdateWired(f, p, m, deltaTime) ==
  CHOOSE result \in {
    IF Swaps(f, deltaTime)
    THEN [flight |-> g, planes |-> p, wrote |-> FALSE,
          paths |-> addFlightPath(m, g.instanceId, g.curve, g.flightOptions)]
    ELSE LET t == IF f.isWaiting THEN One ELSE g.progress
         IN  [flight |-> g, paths |-> m,
              planes |-> updatePlane(g, p, PointAt(g.curve, t), TangentAt(g.curve)),
              wrote |-> (p.visible /\ g.instanceId < p.maxCount)]
    : g \in {Update(f, deltaTime)} } : TRUE

(***************************************************************************)
(* The application (main.js): init(), the frame loop animate() and the     *)
(* handlers of the flight-count slider and the Show Planes checkbox.       *)
(* st = [app, planes]; app.flights holds the instance ids of               *)
(* allFlights.slice(0, count) and app.uploaded the instance matrices as    *)
(* last uploaded to the graphics card.                                     *)
(***************************************************************************)
PlaneSize == 5

RouteAirports ==
  << [lat |-> 0, lng |-> 0], [lat |-> 0, lng |-> 90], [lat |-> 0, lng |-> 180],
     [lat |-> 60, lng |-> 30] >>

RouteSpeeds == << 500, 250, 0, 500 >>

\* flightData[i]
FixtureAt(i) ==
  [departure |-> RouteAirports[(i % 4) + 1],
   arrival |-> RouteAirports[((i + 1) % 4) + 1],
   speed |-> RouteSpeeds[(i % 4) + 1]]

FrameDeltas == {1, 10}

\* allFlights.slice(0, count), as instance ids
Slice(count, length) == [k \in 1..Min(count, length) |-> k - 1]

\* flightData.map(...): each constructor stores its trail
RECURSIVE ConstructFlights(_, _, _)
ConstructFlights(m, i, length) ==
  IF i >= length THEN m
  ELSE ConstructFlights(
         addFlightPath(m, i, NewFlight(FixtureAt(i), i, WaitTimeCurrent).curve, FixtureAt(i)),
         i + 1, length)

\* init() with guiControls.flightCount = count over length fixture records
init(length, count, draw, draw2) ==
  [planes |-> setActiveCount(setGlobalScale(NewInstancedPlanes(length, draw), PlaneSize),
                             count, draw2),
   app |-> [pc |-> "app",
            guiControls |-> [flightCount |-> count, showPlanes |-> TRUE],
            allFlights |-> [i \in 0..(length - 1) |-> NewFlight(FixtureAt(i), i, WaitTimeCurrent)],
            flights |-> Slice(count, length),
            paths |-> setVisibleFlightCount(
                        ConstructFlights(NewMergedFlightPaths(length), 0, length), count),
            uploaded |-> [i \in 0..(length - 1) |-> ZeroScaleMatrix],
            trailsUploaded |-> [positions |-> << >>, colors |-> << >>],
            last |-> "init",
            raisedFrom |-> 0,
            events |-> 0]]

\* an updateFlightCount that leaves the flights array as it was
updateFlightCount_KeepsFlights(st, count, draw) ==
  [planes |-> setActiveCount(st.planes, count, draw),
   app |-> [st.app EXCEPT !.guiControls.flightCount = count,
                          !.paths = setVisibleFlightCount(st.app.paths, count)]]

\* updateFlightCount(count)
updateFlightCount(st, count, draw) ==
  [planes |-> setActiveCount(st.planes, count, draw),
   app |-> [st.app EXCEPT !.guiControls.flightCount = count,
                          !.flights = Slice(count, st.planes.maxCount),
                          !.paths = setVisibleFlightCount(st.app.paths, count)]]

\* togglePlanes(enabled), the checkbox having stored enabled in guiControls
togglePlanes(st, enabled) ==
  [planes |-> SetMeshVisible(st.planes, enabled),
   app |-> [st.app EXCEPT !.guiControls.showPlanes = enabled]]

\* toggleFlightPaths(enabled)
toggleFlightPaths(st, enabled) ==
  [planes |-> st.planes,
   app |-> [st.app EXCEPT !.paths = setCurvesVisible(st.app.paths, enabled)]]

\* flights.forEach(flight => flight.update(adjustedDelta)), from the k-th on
RECURSIVE UpdateFlights(_, _, _)
UpdateFlights(fr, k, deltaTime) ==
  IF k > Len(fr.app.flights) THEN fr
  ELSE LET id == fr.app.flights[k]
           updated(r) == [fr EXCEPT !.app.allFlights[id] = r.flight,
                                    !.app.paths = r.paths,
                                    !.planes = r.planes,
                                    !.advanced = @ \cup {id},
                                    !.deferred = IF r.wrote THEN @ \cup {id} ELSE @]
       IN  CHOOSE result \in {
             UpdateFlights(next, k + 1, deltaTime)
             : next \in { updated(r) : r \in {
                 FlightUpdateWired(fr.app.allFlights[id], fr.planes, fr.app.paths,
                                   deltaTime)} } } : TRUE

\* renderer.render(scene, camera) for the plane mesh: a visible mesh whose
\* instance matrices are flagged has them uploaded, and the flag is cleared
Render(fr) ==
  LET p == fr.planes
      m == fr.app.paths
      planesDrawn ==
        IF ~p.visible THEN fr
        ELSE [fr EXCEPT
                !.app.uploaded = IF p.matrixNeedsUpdate THEN p.matrices ELSE @,
                !.planes.matrixNeedsUpdate = FALSE,
                !.planes.planeTypeNeedsUpdate = FALSE,
                !.flaggedAtRender = p.matrixNeedsUpdate]
  IN  [planesDrawn EXCEPT
         !.app.trailsUploaded =
           [positions |-> IF m.positionNeedsUpload THEN m.positions ELSE @.positions,
            colors |-> IF m.colorNeedsUpload THEN m.colors ELSE @.colors],
         !.app.paths = RenderPaths(m)]

\* an animate that advances the flights whether or not planes are shown
animate_AlwaysAdvances(st, deltaTime) ==
  LET fr == [app |-> st.app, planes |-> st.planes, advanced |-> {}, deferred |-> {},
             flaggedAtRender |-> FALSE]
  IN  CHOOSE result \in {
        Render(updated) : updated \in {UpdateFlights(fr, 1, deltaTime)} } : TRUE

\* animate(): one frame with adjustedDelta = deltaTime
animate(st, deltaTime) ==
  LET fr == [app |-> st.app, planes |-> st.planes, advanced |-> {}, deferred |-> {},
             flaggedAtRender |-> FALSE]
  IN  CHOOSE result \in {
        Render(updated)
        : updated \in {IF st.app.guiControls.showPlanes
                       THEN UpdateFlights(fr, 1, deltaTime) ELSE fr} } : TRUE

NoFrame == [pc |-> "frame", n |-> 0, advanced |-> {}, deferred |-> {},
            flaggedAtRender |-> FALSE, visibleAtRender |-> FALSE]

AppInit ==
  /\ \E count \in 1..MaxCount, draw \in Draws(MaxCount), draw2 \in Draws(MaxCount) :
       LET st == init(MaxCount, count, draw, draw2)
       IN  planes = st.planes /\ app = st.app
  /\ frame = NoFrame
  /\ geo = Idle /\ flight = Idle /\ hist = Idle /\ gpu = Idle /\ call = Idle
  /\ paths = Idle
  /\ pool = Idle /\ glb = Idle /\ loading = Idle

\* one frame tick
Tick ==
  /\ app.pc = "app"
  /\ frame.n < MaxFrames
  /\ \E dt \in FrameDeltas :
       \E fr \in {animate([app |-> app, planes |-> planes], Int2Num(dt))} :
           /\ planes' = fr.planes
           /\ app' = [fr.app EXCEPT !.last = "tick"]
           /\ frame' = [pc |-> "frame", n |-> frame.n + 1, advanced |-> fr.advanced,
                        deferred |-> fr.deferred, flaggedAtRender |-> fr.flaggedAtRender,
                        visibleAtRender |-> fr.planes.visible]
  /\ UNCHANGED <<pool, glb, loading, paths, geo, flight, hist, gpu, call>>

\* the flight-count slider is moved to count
UpdateFlightCount ==
  /\ app.pc = "app"
  /\ app.events < MaxEvents
  /\ \E count \in 1..MaxCount, draw \in Draws(MaxCount) :
       \E st \in {updateFlightCount([app |-> app, planes |-> planes], count, draw)} :
           /\ planes' = st.planes
           /\ app' = [st.app EXCEPT !.last = "count", !.events = @ + 1,
                                    !.raisedFrom = planes.activeCount]
  /\ UNCHANGED <<pool, glb, loading, paths, geo, flight, hist, gpu, call, frame>>

\* the Show Planes checkbox is clicked
TogglePlanes ==
  /\ app.pc = "app"
  /\ app.events < MaxEvents
  /\ LET st == togglePlanes([app |-> app, planes |-> planes], ~app.guiControls.showPlanes)
     IN  /\ planes' = st.planes
         /\ app' = [st.app EXCEPT !.last = "toggle", !.events = @ + 1]
  /\ UNCHANGED <<pool, glb, loading, paths, geo, flight, hist, gpu, call, frame>>

\* the Show Flight Paths checkbox is clicked; the checkbox and curvesVisible
\* both start checked and change together
ToggleFlightPaths ==
  /\ app.pc = "app"
  /\ app.events < MaxEvents
  /\ LET st == toggleFlightPaths([app |-> app, planes |-> planes], ~app.paths.curvesVisible)
     IN  /\ planes' = st.planes
         /\ app' = [st.app EXCEPT !.last = "trails", !.events = @ + 1]
  /\ UNCHANGED <<pool, glb, loading, paths, geo, flight, hist, gpu, call, frame>>

Next == Tick \/ UpdateFlightCount \/ TogglePlanes \/ ToggleFlightPaths

Spec == AppInit /\ [][Next]_vars


FlightCount == app.guiControls.flightCount

AfterTick == app.pc = "app" /\ app.last = "tick"

\* C7: at a render with the plane mesh visible, every slot at or above the
\* active count holds a zero-scale transform; and right after the count is
\* raised, every newly activated slot is still zero-scale.  The code breaks
\* both: a count lowered while the mesh is hidden hides nothing.
C7_NoStalePlane ==
  /\ (AfterTick /\ frame.visibleAtRender) =>
       \A i \in Slots(planes) :
         i >= planes.activeCount =>
           IsZeroScale(planes.matrices[i]) /\ IsZeroScale(app.uploaded[i])
  /\ (app.pc = "app" /\ app.last = "count" /\ planes.activeCount > app.raisedFrom) =>
       \A i \in app.raisedFrom..(planes.activeCount - 1) : IsZeroScale(planes.matrices[i])

\* C8: after any flight-count changes, the renderer's active count, the
\* paths' visible count and the flights array all stand at count; a frame
\* tick with Show Planes on (as it is when only the count has been changed)
\* advances exactly the Flights with instanceId < count, and one with Show
\* Planes off advances none; the instance-buffer capacity and the trail
\* buffer capacity stay at the number of fixture records.
C8_CountsAgree ==
  app.pc = "app" =>
    /\ planes.activeCount = FlightCount
    /\ app.paths.currentFlightCount = FlightCount
    /\ app.flights = Slice(FlightCount, MaxCount)
    /\ (AfterTick /\ app.guiControls.showPlanes) =>
         frame.advanced = {i \in 0..(MaxCount - 1) : i < FlightCount}
    /\ (AfterTick /\ ~app.guiControls.showPlanes) => frame.advanced = {}
    /\ planes.maxCount = MaxCount
    /\ DOMAIN planes.matrices = 0..(MaxCount - 1)
    /\ DOMAIN planes.planeTypes = 0..(MaxCount - 1)
    /\ app.paths.maxFlights = MaxCount
    /\ app.paths.totalPoints = MaxCount * (pointsPerPath + 1)
    /\ DOMAIN app.allFlights = 0..(MaxCount - 1)

\* a frame has advanced Flights 0 and 1 after the count was changed twice,
\* last from another value to 2
C8_TickAfterCountChanges ==
  /\ AfterTick
  /\ app.guiControls.showPlanes
  /\ app.events >= 2
  /\ FlightCount = 2
  /\ app.raisedFrom \notin {0, 2}
  /\ frame.advanced = {0, 1}

\* C9: in a frame in which Flights wrote transforms with the update
\* deferred, the instance matrices are flagged when the render begins and
\* the render uploads every transform written.  The frame loop never
\* raises the flag.
C9_DeferredWritesFlushed ==
  (AfterTick /\ frame.deferred # {}) =>
    /\ frame.flaggedAtRender
    /\ \A i \in frame.deferred : app.uploaded[i] = planes.matrices[i]


(***************************************************************************)
(* The vertex stage of GPUInstancedPlanes (GPUInstancedPlanes.js): the     *)
(* cycle model that places an instance from the time uniform alone.        *)
(***************************************************************************)
\* a - b
NumSub(a, b) == NumAdd(a, <<-b[1], b[2]>>)

\* a * b
NumMul(a, b) ==
  IF IsNaN(a) \/ IsNaN(b) THEN NaN
  ELSE IF a[2] = 0 \/ b[2] = 0
       THEN (IF a[1] = 0 \/ b[1] = 0 THEN NaN ELSE <<Sign(a[1]) * Sign(b[1]), 0>>)
  ELSE Num(a[1] * b[1], a[2] * b[2])

\* a < b (false when either side is NaN)
NumLt(a, b) == ~IsNaN(a) /\ ~IsNaN(b) /\ ~NumGeq(a, b)

\* floor(a), a finite
NumFloor(a) == Int2Num(a[1] \div a[2])

\* GLSL mod(x, y) = x - y * floor(x / y)
NumMod(x, y) ==
  LET q == NumDiv(x, y)
  IN  IF ~IsFinite(q) \/ ~IsFinite(x) \/ ~IsFinite(y) THEN NaN
      ELSE NumSub(x, NumMul(y, NumFloor(q)))

\* main(): which branch places the instance and at which path parameter.
\* The waiting branch puts the instance at control point 0.
VertexStagePlace(time, animationSpeed, flightPhase, flightDuration, waitTime) ==
  LET animTime == NumAdd(NumMul(time, animationSpeed), flightPhase)
      totalCycleTime == NumAdd(NumMul(flightDuration, Int2Num(2)), waitTime)
      normalizedTime == NumMod(animTime, totalCycleTime)
  IN  IF NumLt(normalizedTime, flightDuration)
      THEN [phase |-> "outbound", t |-> NumDiv(normalizedTime, flightDuration)]
      ELSE IF NumLt(normalizedTime, NumMul(flightDuration, Int2Num(2)))
      THEN [phase |-> "return",
            t |-> NumSub(One, NumDiv(NumSub(normalizedTime, flightDuration),
                                     flightDuration))]
      ELSE [phase |-> "dwellOrigin", t |-> Zero]

\* where the Flight timeline has the agent, on the leg it was built with:
\* legs flown after an odd number of swaps run the first leg backwards
FlightPlace(f, swaps) ==
  IF swaps % 2 = 0
  THEN IF f.isWaiting THEN [phase |-> "dwellDestination", t |-> One]
       ELSE [phase |-> "outbound", t |-> f.progress]
  ELSE IF f.isWaiting THEN [phase |-> "dwellOrigin", t |-> Zero]
       ELSE [phase |-> "return", t |-> NumSub(One, f.progress)]

RECURSIVE SumSeq(_)
SumSeq(seq) == IF seq = << >> THEN 0 ELSE Head(seq) + SumSeq(Tail(seq))

\* the update calls so far carried the Flight through its timeline without
\* overshooting: a whole-second duration, the dwell time of the vertex
\* stage, and steps of 0 or 1 s, or a first step of exactly one leg
ExactTimeline ==
  /\ hist.pc = "flight"
  /\ flight.waitTime = WaitTimeCurrent
  /\ hist.initial.speed > 0
  /\ hist.initial.duration[2] = 1
  /\ \A k \in 1..Len(hist.log) :
       \/ hist.log[k] \in {0, 1}
       \/ k = 1 /\ Int2Num(hist.log[1]) = hist.initial.duration

\* C11: for the same leg, duration, dwell time and elapsed time (phase
\* offset 0, animation speed 1) the vertex stage's cycle model and the
\* Flight timeline have the agent in the same phase at the same path
\* parameter.  The cycle model has no dwell at the destination.
C11_CycleModelMatchesTimeline ==
  ExactTimeline =>
    VertexStagePlace(Int2Num(SumSeq(hist.log)), One, Zero, hist.initial.duration,
                     Int2Num(WaitTimeCurrent))
      = FlightPlace(flight, hist.swaps)

\* what the two do agree on: the outbound leg, before the destination
C11_OutboundLegMatches ==
  (ExactTimeline /\ NumLt(Int2Num(SumSeq(hist.log)), hist.initial.duration)) =>
    VertexStagePlace(Int2Num(SumSeq(hist.log)), One, Zero, hist.initial.duration,
                     Int2Num(WaitTimeCurrent))
      = FlightPlace(flight, hist.swaps)

\* one second after a 10 s leg: the Flight dwells at the destination while
\* the vertex stage is already a tenth of the way back
C11_DwellMissing ==
  /\ ExactTimeline
  /\ hist.log = <<10, 1>>
  /\ FlightPlace(flight, hist.swaps) = [phase |-> "dwellDestination", t |-> One]
  /\ VertexStagePlace(Int2Num(11), One, Zero, hist.initial.duration,
                      Int2Num(WaitTimeCurrent))
       = [phase |-> "return", t |-> <<9, 10>>]


(***************************************************************************)
(* The path data of GPUInstancedPlanes: setFlightPath packs seven points   *)
(* of a curve per instance, and the vertex stage evaluates them.  A call   *)
(* that raises an error yields threw = TRUE and the state as the error     *)
(* left it.                                                                *)
(***************************************************************************)
\* new THREE.CatmullRomCurve3(points)
CatmullRomCurve3(points) == [kind |-> "CatmullRomCurve3", points |-> points]

\* a plain array of points
PointArray(points) == [kind |-> "Array", points |-> points]

\* whether curve.getPoint is a function
HasGetPoint(curve) == curve.kind = "CatmullRomCurve3"

\* curve.getPoint(i / n) where (l - 1) * i / n is whole: the spline passes
\* through its control points at those parameters
getPoint(curve, i, n) == curve.points[((Len(curve.points) - 1) * i) \div n + 1]

\* setFlightPath(instanceId, origin, destination, curve, duration); phase is
\* the call's Math.random() * 10.0
setFlightPath(g, instanceId, origin, destination, curve, duration, phase) ==
  IF instanceId >= g.maxCount THEN [renderer |-> g, threw |-> FALSE]
  ELSE IF ~HasGetPoint(curve) THEN [renderer |-> g, threw |-> TRUE]
  ELSE [renderer |->
          [g EXCEPT !.packs[instanceId] =
             [points |-> [k \in 1..7 |-> getPoint(curve, k - 1, 6)],
              duration |-> duration,
              phase |-> phase,
              planeType |-> instanceId % PlaneTypeCount]],
        threw |-> FALSE]

\* markAttributesNeedUpdate()
markAttributesNeedUpdate(g) == [g EXCEPT !.packsNeedUpdate = TRUE]

\* getControlPoint(index) for one instance's pack
getControlPoint(pack, index) ==
  IF index \in 0..5 THEN pack.points[index + 1] ELSE pack.points[7]

\* a vec3 of numbers from a vec3 of whole numbers
Vec3Num(p) == [x |-> Int2Num(p.x), y |-> Int2Num(p.y), z |-> Int2Num(p.z)]

\* one component of evaluateCatmullRom at t = <<n, d>>:
\* 0.5 * (2 p1 + (-p0 + p2) t + (2 p0 - 5 p1 + 4 p2 - p3) t^2
\*        + (-p0 + 3 p1 - 3 p2 + p3) t^3)
CatmullRomComponent(p0, p1, p2, p3, t) ==
  LET n == t[1]
      d == t[2]
  IN  Num(2 * p1 * d * d * d + (p2 - p0) * n * d * d
          + (2 * p0 - 5 * p1 + 4 * p2 - p3) * n * n * d
          + (3 * p1 - p0 - 3 * p2 + p3) * n * n * n,
          2 * d * d * d)

\* evaluateCatmullRom(p0, p1, p2, p3, t)
evaluateCatmullRom(p0, p1, p2, p3, t) ==
  [x |-> CatmullRomComponent(p0.x, p1.x, p2.x, p3.x, t),
   y |-> CatmullRomComponent(p0.y, p1.y, p2.y, p3.y, t),
   z |-> CatmullRomComponent(p0.z, p1.z, p2.z, p3.z, t)]

\* evaluateFlightPath(t, tangent): the segment chosen, the local parameter
\* and the position returned
evaluateFlightPath(pack, t) ==
  LET scaledT == NumMul(t, Int2Num(4))
      segment == NumFloor(scaledT)[1]
      localT == NumSub(scaledT, Int2Num(segment))
      first == IF segment = 0 THEN 0 ELSE IF segment = 1 THEN 1
               ELSE IF segment = 2 THEN 2 ELSE 3
  IN  [segment |-> segment,
       localT |-> localT,
       position |-> evaluateCatmullRom(getControlPoint(pack, first),
                                       getControlPoint(pack, first + 1),
                                       getControlPoint(pack, first + 2),
                                       getControlPoint(pack, first + 3), localT)]


(***************************************************************************)
(* GPUFlight (GPUFlight.js): computes a leg's data once and hands it to    *)
(* the GPU renderer.  It is modelled without merged flight paths           *)
(* (mergedFlightPaths absent).                                             *)
(***************************************************************************)
\* a.clone().lerp(b, pct / 100)
Lerp3(a, b, pct) ==
  [x |-> a.x + ((b.x - a.x) * pct) \div 100,
   y |-> a.y + ((b.y - a.y) * pct) \div 100,
   z |-> a.z + ((b.z - a.z) * pct) \div 100]

\* v.normalize().multiplyScalar(length); normalize divides by length() || 1
NormalizedTo(v, length) ==
  LET l == ISqrt(v.x * v.x + v.y * v.y + v.z * v.z)
      len == IF l = 0 THEN 1 ELSE l
  IN  [x |-> (v.x * length) \div len, y |-> (v.y * length) \div len,
       z |-> (v.z * length) \div len]

\* minCruiseAltitude + (max - min) * Math.pow(distanceRatio, 0.7), where
\* distanceRatio = min(distance / (radius * PI * 0.3), 1); between its end
\* values 15 and 200 the power is taken as linear
cruiseAltitudeOf(distance) ==
  IF distance >= 2827 THEN 200 ELSE 15 + (185 * distance) \div 2827

\* the control points setupFlightPath keeps: start, climbPoint2,
\* descentPoint1, end
ControlPointsOf(startSurface, endSurface) ==
  LET cruiseAltitude == cruiseAltitudeOf(DistanceTo(startSurface, endSurface))
      climbPoint2 == NormalizedTo(Lerp3(startSurface, endSurface, 35),
                                  EarthRadius + (cruiseAltitude * 75) \div 100)
      descentPoint1 == NormalizedTo(Lerp3(startSurface, endSurface, 65),
                                    EarthRadius + (cruiseAltitude * 75) \div 100)
  IN  <<startSurface, climbPoint2, descentPoint1, endSurface>>

\* GPUFlight.calculateDuration(): the control polygon's length over speed
GpuCalculateDuration(controlPoints, speed) ==
  LET pathLength == DistanceTo(controlPoints[1], controlPoints[2])
                    + DistanceTo(controlPoints[2], controlPoints[3])
                    + DistanceTo(controlPoints[3], controlPoints[4])
  IN  NumDiv(Int2Num(pathLength), Int2Num(speed))

\* updateGPURenderer(): setFlightPath receives the array of control points
\* where it expects a curve
updateGPURenderer(f, g, phase) ==
  LET r == setFlightPath(g, f.instanceId, f.controlPoints[1], f.controlPoints[4],
                         PointArray(f.controlPoints), f.duration, phase)
  IN  IF r.threw THEN [renderer |-> r.renderer, threw |-> TRUE, pushes |-> 0]
      ELSE [renderer |-> markAttributesNeedUpdate(r.renderer), threw |-> FALSE,
            pushes |-> 1]

\* setupFlightPath()
setupFlightPath(f, g, phase) ==
  LET origin == EarthLatLngToVector3(f.departure.lat, f.departure.lng)
      destination == EarthLatLngToVector3(f.arrival.lat, f.arrival.lng)
      startSurface == ScaledToLength(origin, EarthRadius + surfaceOffset)
      endSurface == ScaledToLength(destination, EarthRadius + surfaceOffset)
      controlPoints == ControlPointsOf(startSurface, endSurface)
      h == [f EXCEPT !.origin = origin, !.destination = destination,
                     !.controlPoints = controlPoints,
                     !.duration = GpuCalculateDuration(controlPoints, f.speed)]
      r == updateGPURenderer(h, g, phase)
  IN  [flight |-> h, renderer |-> r.renderer, threw |-> r.threw, pushes |-> r.pushes]

\* new GPUFlight(flightOptions, earth, gpuPlaneRenderer, instanceId)
NewGPUFlight(flightOptions, instanceId, g, phase) ==
  setupFlightPath(
    [pc |-> "gpuflight",
     flightOptions |-> flightOptions,
     departure |-> flightOptions.departure,
     arrival |-> flightOptions.arrival,
     instanceId |-> instanceId,
     speed |-> SpeedOrDefault(flightOptions.speed),
     origin |-> Origin3,
     destination |-> Origin3,
     controlPoints |-> <<Origin3, Origin3, Origin3, Origin3>>,
     duration |-> Zero], g, phase)

\* GPUFlight.swapRoute()
GpuSwapRoute(f, g, phase) ==
  setupFlightPath([f EXCEPT !.departure = f.arrival, !.arrival = f.departure], g, phase)

PathPoints ==
  [k \in 1..7 |-> [x |-> 3005 - 400 * (k - 1), y |-> 120 * k * (8 - k), z |-> 400 * (k - 1)]]

CurveArgs == { CatmullRomCurve3(PathPoints), PointArray(SubSeq(PathPoints, 1, 4)) }

GpuFixtures == { FixtureAt(0), FixtureAt(1) }



\* a direct setFlightPath call
GpuPlanesSetFlightPath ==
  /\ GpuLive
  /\ \E instanceId \in {0, MaxSlots}, curve \in CurveArgs, duration \in {Int2Num(10)},
        phase \in {Int2Num(3)} :
       LET r == setFlightPath(gpu, instanceId, curve.points[1],
                              curve.points[Len(curve.points)], curve, duration, phase)
       IN  /\ gpu' = r.renderer
           /\ call' = [NoCall EXCEPT !.op = "setFlightPath", !.count = instanceId,
                                     !.threw = r.threw,
                                     !.beyond = (instanceId >= gpu.maxCount)]
  /\ UNCHANGED <<pool, glb, loading, paths, geo, flight, hist, planes, app, frame>>

\* new GPUFlight(...) on the renderer; a constructor that raises an error
\* yields no object
GpuPlanesNewFlight ==
  /\ GpuLive
  /\ \E instanceId \in {0, MaxSlots}, flightOptions \in GpuFixtures, phase \in {Int2Num(3)} :
       LET r == NewGPUFlight(flightOptions, instanceId, gpu, phase)
       IN  /\ gpu' = r.renderer
           /\ flight' = IF r.threw THEN flight ELSE r.flight
           /\ call' = [NoCall EXCEPT !.op = "newGPUFlight", !.count = instanceId,
                                     !.threw = r.threw, !.pushes = r.pushes]
  /\ UNCHANGED <<pool, glb, loading, paths, geo, hist, planes, app, frame>>

\* swapRoute() on the GPUFlight last constructed
GpuPlanesSwapRoute ==
  /\ GpuLive
  /\ flight.pc = "gpuflight"
  /\ \E phase \in {Int2Num(3)} :
       LET r == GpuSwapRoute(flight, gpu, phase)
       IN  /\ gpu' = r.renderer
           /\ flight' = r.flight
           /\ call' = [NoCall EXCEPT !.op = "swapRoute", !.count = flight.instanceId,
                                     !.threw = r.threw, !.pushes = r.pushes]
  /\ UNCHANGED <<pool, glb, loading, paths, geo, hist, planes, app, frame>>

(***************************************************************************)
(* MergedFlightPaths called on its own: each action is one call on an      *)
(* initialized object of MaxSlots trails.  call.requested is the count     *)
(* last passed to setVisibleFlightCount.                                   *)
(***************************************************************************)
PathsLive == call.pc = "planes" /\ paths.pc = "paths"

PathsCall(op) == [NoCall EXCEPT !.op = op, !.requested = call.requested]

PathsAddFlightPath ==
  /\ PathsLive
  /\ \E flightIndex \in {0, 1, MaxSlots} :
       /\ paths' = addFlightPath(paths, flightIndex,
                                 NewFlight(FixtureAt(flightIndex), flightIndex,
                                           WaitTimeCurrent).curve,
                                 FixtureAt(flightIndex))
       /\ call' = [PathsCall("addFlightPath") EXCEPT
                     !.count = flightIndex,
                     !.beyond = (flightIndex >= paths.maxFlights)]
  /\ UNCHANGED <<pool, glb, loading, geo, flight, hist, planes, gpu, app, frame>>

PathsHideFlightPath ==
  /\ PathsLive
  /\ \E flightIndex \in {0, 1, MaxSlots} :
       /\ paths' = hideFlightPath(paths, flightIndex)
       /\ call' = [PathsCall("hideFlightPath") EXCEPT
                     !.count = flightIndex,
                     !.beyond = (flightIndex >= paths.maxFlights)]
  /\ UNCHANGED <<pool, glb, loading, geo, flight, hist, planes, gpu, app, frame>>

PathsSetVisibleFlightCount ==
  /\ PathsLive
  /\ \E count \in CountArgs :
       /\ paths' = setVisibleFlightCount(paths, count)
       /\ call' = [NoCall EXCEPT !.op = "setVisibleFlightCount", !.requested = count]
  /\ UNCHANGED <<pool, glb, loading, geo, flight, hist, planes, gpu, app, frame>>

PathsSetCurvesVisible ==
  /\ PathsLive
  /\ \E visible \in BOOLEAN : paths' = setCurvesVisible(paths, visible)
  /\ call' = PathsCall("setCurvesVisible")
  /\ UNCHANGED <<pool, glb, loading, geo, flight, hist, planes, gpu, app, frame>>

PathsApplyBatchedUpdates ==
  /\ PathsLive
  /\ paths' = applyBatchedUpdates(paths)
  /\ call' = PathsCall("applyBatchedUpdates")
  /\ UNCHANGED <<pool, glb, loading, geo, flight, hist, planes, gpu, app, frame>>

\* a frame is rendered: the flagged trail buffers are uploaded
PathsRendered ==
  /\ PathsLive
  /\ paths' = RenderPaths(paths)
  /\ call' = PathsCall("render")
  /\ UNCHANGED <<pool, glb, loading, geo, flight, hist, planes, gpu, app, frame>>

PlanesInit ==
  /\ \/ /\ \E draw \in Draws(MaxSlots) : planes = NewInstancedPlanes(MaxSlots, draw)
        /\ gpu = Idle /\ paths = Idle
     \/ /\ \E phases \in PhaseDraws(MaxSlots), draw \in Draws(MaxSlots) :
             gpu = NewGPUInstancedPlanes(MaxSlots, phases, draw)
        /\ planes = Idle /\ paths = Idle
     \/ /\ paths = NewMergedFlightPaths(MaxSlots)
        /\ planes = Idle /\ gpu = Idle
  /\ call = NoCall
  /\ geo = Idle /\ flight = Idle /\ hist = Idle /\ app = Idle /\ frame = Idle
  /\ pool = Idle /\ glb = Idle /\ loading = Idle

PlanesNext ==
  \/ PlanesSetInstanceTransform
  \/ PlanesHideInstance
  \/ PlanesSetPlaneType
  \/ PlanesSetActiveCount
  \/ PlanesSetGlobalScale
  \/ PlanesForceMatrixUpdate
  \/ PlanesSetMeshVisible
  \/ PlanesRendered
  \/ GpuPlanesSetActiveCount
  \/ GpuPlanesSetMeshVisible
  \/ GpuPlanesSetFlightPath
  \/ GpuPlanesNewFlight
  \/ GpuPlanesSwapRoute
  \/ PathsAddFlightPath
  \/ PathsHideFlightPath
  \/ PathsSetVisibleFlightCount
  \/ PathsSetCurvesVisible
  \/ PathsApplyBatchedUpdates
  \/ PathsRendered

SpecPlanes == PlanesInit /\ [][PlanesNext]_vars

(***************************************************************************)
(* C12, C13: the path data on the GPU                                      *)
(***************************************************************************)
\* the path parameters the evaluator is asked at: k/8 for k = 0..8
PathParameters == { Num(k, 8) : k \in 0..8 }

\* a completed setFlightPath call that stored a curve in a slot
PackedBySetFlightPath ==
  /\ call.pc = "planes" /\ gpu.pc = "gpu"
  /\ call.op = "setFlightPath" /\ ~call.threw
  /\ call.count < gpu.maxCount

\* C12: the evaluator selects segment floor(4t) in 0..3 with a local
\* parameter in [0, 1], and the position at t = 0 is packed point 0 and at
\* t = 1 packed point 6, as for the CPU curve
C12_EvaluatorSpansAllPoints ==
  PackedBySetFlightPath =>
    \A t \in PathParameters :
      LET pack == gpu.packs[call.count]
          e == evaluateFlightPath(pack, t)
      IN  /\ e.segment \in 0..3
          /\ NumGeq(e.localT, Zero) /\ NumGeq(One, e.localT)
          /\ (t = Zero => e.position = Vec3Num(getControlPoint(pack, 0)))
          /\ (t = One => e.position = Vec3Num(getControlPoint(pack, 6)))

\* what the evaluator does return at the two ends: packed points 1 and 4
C12_EndsAtInnerPoints ==
  PackedBySetFlightPath =>
    LET pack == gpu.packs[call.count]
    IN  /\ evaluateFlightPath(pack, Zero).position = Vec3Num(getControlPoint(pack, 1))
        /\ evaluateFlightPath(pack, One).segment = 4
        /\ evaluateFlightPath(pack, One).position = Vec3Num(getControlPoint(pack, 4))

\* a leg constructed or swapped on a slot of the renderer
GpuLegCall ==
  /\ call.pc = "planes" /\ gpu.pc = "gpu"
  /\ call.op \in {"newGPUFlight", "swapRoute"}

\* C13: constructing a GPUFlight and each later swapRoute complete without
\* an error and leave the slot holding the leg's data (seven points from
\* lift-off to landing, and the duration), pushed exactly once
C13_LegDataPushedOnce ==
  GpuLegCall =>
    /\ ~call.threw
    /\ call.count < gpu.maxCount =>
         /\ call.pushes = 1
         /\ flight.pc = "gpuflight"
         /\ gpu.packs[call.count].points[1] = flight.controlPoints[1]
         /\ gpu.packs[call.count].points[7] = flight.controlPoints[4]
         /\ gpu.packs[call.count].duration = flight.duration

\* what happens instead: on a slot of the renderer the call raises an error
\* and the slot keeps the data it had
C13_LegCallThrows ==
  [][(GpuLegCall' /\ call'.count < gpu.maxCount)
       => (call'.threw /\ gpu'.packs = gpu.packs)]_vars


(***************************************************************************)
(* C14..C18: the trail buffers of MergedFlightPaths                        *)
(***************************************************************************)
\* the samples of trail i: its block of the buffers
BlockOf(i) == (i * (pointsPerPath + 1))..((i + 1) * (pointsPerPath + 1) - 1)

\* an addFlightPath call on a trail of the object has returned
AddedPath == PathsLive /\ call.op = "addFlightPath" /\ ~call.beyond

\* the curve PathsAddFlightPath passes for trail i
CurveOfTrail(i) == NewFlight(FixtureAt(i), i, WaitTimeCurrent).curve

\* C14: for i < maxFlights, addFlightPath(i, ...) writes position and
\* colour samples only in trail i's block; every other block is unchanged
C14_WritesOwnBlockOnly ==
  [][AddedPath' =>
       \A j \in (0..(paths.totalPoints - 1)) \ BlockOf(call'.count) :
         /\ PositionAt(paths'.positions, j) = PositionAt(paths.positions, j)
         /\ ColorAt(paths'.colors, j) = ColorAt(paths.colors, j)]_vars

\* trail 1 has just been written next to a written trail 0
C14_NeighbourBlockKept ==
  /\ AddedPath /\ call.count = 1 /\ paths.curvesVisible
  /\ PositionAt(paths.positions, pointsPerPath) = CurveOfTrail(0).end
  /\ PositionAt(paths.positions, pointsPerPath + 1) = CurveOfTrail(1).start

\* C15: after addFlightPath(i, curve, ...) with trails visible the block
\* holds pointsPerPath samples at k/(pointsPerPath-1), k = 0..pointsPerPath-1,
\* and one more sample in the last slot, equal to the sample before it
C15_SamplesThenDuplicate ==
  (AddedPath /\ paths.curvesVisible) =>
    LET first == call.count * (pointsPerPath + 1)
    IN  /\ \A k \in 0..(pointsPerPath - 1) :
             PositionAt(paths.positions, first + k)
               = PointAt(CurveOfTrail(call.count), <<k, pointsPerPath - 1>>)
        /\ PositionAt(paths.positions, first + pointsPerPath)
             = PositionAt(paths.positions, first + pointsPerPath - 1)

\* what the block does hold: pointsPerPath + 1 samples at k/pointsPerPath,
\* the last of them the end point, which no other sample equals
C15_SamplesAtHundredths ==
  (AddedPath /\ paths.curvesVisible) =>
    LET first == call.count * (pointsPerPath + 1)
    IN  /\ \A k \in 0..pointsPerPath :
             PositionAt(paths.positions, first + k)
               = PointAt(CurveOfTrail(call.count), <<k, pointsPerPath>>)
        /\ PositionAt(paths.positions, first + pointsPerPath)
             # PositionAt(paths.positions, first + pointsPerPath - 1)

\* C16: after any calls of setVisibleFlightCount and setCurvesVisible the
\* draw range starts at 0, counts min(n, maxFlights) * (pointsPerPath + 1)
\* vertices for the last requested n when the trails are visible and 0 when
\* they are off, and never exceeds the allocated samples
C16_DrawRangeFollowsCount ==
  PathsLive =>
    /\ paths.drawRange.start = 0
    /\ paths.drawRange.count =
         IF paths.curvesVisible
         THEN Min(call.requested, paths.maxFlights) * (pointsPerPath + 1)
         ELSE 0
    /\ paths.drawRange.count <= paths.totalPoints

\* the trails are switched back on after more trails than allocated were
\* requested
C16_ClampedCountRestored ==
  /\ PathsLive /\ call.op = "setCurvesVisible" /\ paths.curvesVisible
  /\ call.requested > paths.maxFlights
  /\ paths.drawRange.count = paths.maxFlights * (pointsPerPath + 1)

\* C17: addFlightPath only marks the buffers as pending and
\* applyBatchedUpdates raises the upload flags, so that a trail buffer
\* changed by addFlightPath during a frame is uploaded in that frame
C17_TrailChangesUploaded ==
  AfterTick =>
    \A j \in 0..(app.paths.totalPoints - 1) :
      /\ PositionAt(app.trailsUploaded.positions, j) = PositionAt(app.paths.positions, j)
      /\ ColorAt(app.trailsUploaded.colors, j) = ColorAt(app.paths.colors, j)

\* the object on its own: addFlightPath leaves the upload flags alone, and
\* applyBatchedUpdates turns the pending marks into upload flags
C17_BatchedOnObject ==
  [][/\ (PathsLive' /\ call'.op = "addFlightPath") =>
          /\ paths'.positionNeedsUpload = paths.positionNeedsUpload
          /\ paths'.colorNeedsUpload = paths.colorNeedsUpload
     /\ (PathsLive' /\ call'.op = "applyBatchedUpdates") =>
          /\ ~paths'.needsPositionUpdate /\ ~paths'.needsColorUpdate
          /\ paths.needsPositionUpdate => paths'.positionNeedsUpload
          /\ paths.needsColorUpdate => paths'.colorNeedsUpload]_vars

\* in the application the pending marks are never turned into upload flags
C17_NeverApplied ==
  (app.pc = "app" /\ frame.n >= 1) =>
    ~app.paths.positionNeedsUpload /\ ~app.paths.colorNeedsUpload

\* C18: while the trails are not visible addFlightPath changes nothing, and
\* making them visible again computes no path
C18_HiddenAddIsNoOp ==
  [][/\ (PathsLive' /\ call'.op = "addFlightPath" /\ ~paths.curvesVisible) =>
          paths' = paths
     /\ (PathsLive' /\ call'.op = "setCurvesVisible") =>
          /\ paths'.positions = paths.positions
          /\ paths'.colors = paths.colors
          /\ paths'.needsPositionUpdate = paths.needsPositionUpdate
          /\ paths'.needsColorUpdate = paths.needsColorUpdate]_vars

\* addFlightPath has been called on an empty trail while the trails were off
C18_AddedWhileHidden ==
  /\ AddedPath /\ ~paths.curvesVisible
  /\ PositionAt(paths.positions, call.count * (pointsPerPath + 1)) = Origin3
  /\ ~paths.needsPositionUpdate

(***************************************************************************)
(* C19: slot indices beyond the capacity                                   *)
(***************************************************************************)
SlotOps ==
  { "setInstanceTransform", "hideInstance", "setPlaneType", "setFlightPath",
    "addFlightPath", "hideFlightPath" }

\* C19: for a slot index >= capacity the slot operations raise no error and
\* leave the stored data, the flags and the active count unchanged
C19_BeyondCapacityIgnored ==
  [][(call'.pc = "planes" /\ call'.op \in SlotOps /\ call'.beyond) =>
       /\ ~call'.threw
       /\ planes' = planes /\ gpu' = gpu /\ paths' = paths]_vars

\* addFlightPath has been called beyond the capacity on an object with a
\* written trail and nothing pending
C19_AddedBeyondCapacity ==
  /\ PathsLive /\ call.op = "addFlightPath" /\ call.beyond
  /\ paths.curvesVisible /\ ~paths.needsPositionUpdate
  /\ PositionAt(paths.positions, 0) # Origin3

(***************************************************************************)
(* C20: the speed of a Flight                                              *)
(***************************************************************************)
\* C20: a Flight made from a record whose speed is absent, zero or negative
\* uses the default speed, and its speed is positive in every state
C20_SpeedPositive ==
  hist.pc = "flight" =>
    /\ flight.speed > 0
    /\ flight.flightOptions.speed <= 0 => flight.speed = DefaultSpeed

\* what holds instead: an absent or zero speed becomes the default, any
\* other speed is kept as given
C20_SpeedKeptUnlessZero ==
  hist.pc = "flight" =>
    flight.speed = IF flight.flightOptions.speed = 0 THEN DefaultSpeed
                   ELSE flight.flightOptions.speed

(***************************************************************************)
(* C22: the global scale and the transforms stored after it was set.       *)
(***************************************************************************)
\* a setInstanceTransform step that stores a transform: slot in range, mesh
\* visible, made after some setGlobalScale
StoresAfterGlobalScale ==
  /\ CpuLive /\ planes.globalScale # Null /\ planes.visible
  /\ call'.pc = "planes" /\ call'.op = "setInstanceTransform" /\ ~call'.beyond

\* C22: after setGlobalScale(s), s >= 0 and s = 0 included, a
\* setInstanceTransform(slot, ..., scale) on a visible mesh stores a
\* transform of uniform scale scale * s
C22_StoredScaleIsProduct ==
  [][StoresAfterGlobalScale =>
       \E scale \in ScaleArgs :
         planes'.matrices[call'.count].scale = scale * planes.globalScale]_vars

\* C22, the part the code keeps: for s > 0 the stored scale is scale * s,
\* and setGlobalScale itself changes no stored transform
C22_PositiveScaleIsProduct ==
  [][/\ (StoresAfterGlobalScale /\ planes.globalScale > 0) =>
          \E scale \in ScaleArgs :
            planes'.matrices[call'.count].scale = scale * planes.globalScale
     /\ (CpuLive /\ call'.pc = "planes" /\ call'.op = "setGlobalScale") =>
          planes'.matrices = planes.matrices]_vars

\* a transform stored under global scale 0: it has the scale of the call
C22_StoredUnderZeroScale ==
  /\ CpuLive /\ call.op = "setInstanceTransform" /\ ~call.beyond
  /\ planes.globalScale = 0
  /\ \E scale \in ScaleArgs : planes.matrices[call.count].scale = scale /\ scale # 0

(***************************************************************************)
(* C23: hiding a slot twice in a row.                                      *)
(***************************************************************************)
\* C23: a hideInstance(slot) that follows a hideInstance(slot) changes
\* nothing: matrices, plane types, upload flags and the active count are
\* those the first call left
C23_HideTwiceIsHideOnce ==
  [][(CpuLive /\ call'.pc = "planes" /\ call'.op = "hideInstance" /\ call'.again) =>
       planes' = planes]_vars

\* a slot in range, shown and then hidden twice in a row
C23_HiddenTwice ==
  /\ CpuLive /\ call.op = "hideInstance" /\ call.again /\ ~call.beyond
  /\ planes.matrices[call.count] = ZeroScaleMatrix
  /\ planes.activeCount > 0

(***************************************************************************)
(* C24: frames rendered while Show Planes is off.                          *)
(***************************************************************************)
\* a frame tick made while Show Planes is off
HiddenTick ==
  /\ app.pc = "app" /\ ~app.guiControls.showPlanes
  /\ app'.last = "tick" /\ frame'.n = frame.n + 1

\* C24: a frame tick made while Show Planes is off changes no Flight
\* (progress, waiting flag, wait timer, route, curve) and stores no instance
\* transform, so that a Flight resumes from the state it was hidden in
C24_HiddenTickFreezesFlights ==
  [][HiddenTick =>
       /\ app'.allFlights = app.allFlights
       /\ planes'.matrices = planes.matrices
       /\ frame'.advanced = {} /\ frame'.deferred = {}]_vars

\* a frame was rendered while Show Planes was off, after the flights had
\* been advanced by an earlier frame
C24_TickedWhileHidden ==
  /\ app.pc = "app" /\ app.last = "tick" /\ ~app.guiControls.showPlanes
  /\ frame.n >= 2 /\ frame.advanced = {}
  /\ \E id \in DOMAIN app.allFlights :
       app.allFlights[id] # NewFlight(FixtureAt(id), id, WaitTimeCurrent)

(***************************************************************************)
(* C25: one phase transition per update at most.                           *)
(***************************************************************************)
\* the route a Flight is on
RouteOf(f) == <<f.departure, f.arrival>>

\* C25: one update(dt) makes one phase transition at most.  A call that
\* ends a dwell swaps the route once and leaves the Flight flying at
\* progress exactly 0; a call that completes a leg leaves it dwelling at
\* progress 1 with waitTimer 0 and on the same route; any other call keeps
\* phase and route.  Time beyond the boundary is dropped in both cases.
C25_OneTransitionPerUpdate ==
  Called =>
    /\ (hist.before.isWaiting /\ ~flight.isWaiting) =>
         /\ flight.progress = Zero /\ flight.waitTimer = Zero
         /\ RouteOf(flight) = <<hist.before.arrival, hist.before.departure>>
    /\ (~hist.before.isWaiting /\ flight.isWaiting) =>
         /\ flight.progress = One /\ flight.waitTimer = Zero
         /\ RouteOf(flight) = RouteOf(hist.before)
    /\ (hist.before.isWaiting = flight.isWaiting) =>
         RouteOf(flight) = RouteOf(hist.before)

\* a call that ended a dwell with time to spare: the route is swapped and
\* the new leg starts at progress 0
C25_BoundaryCrossedWithExcess ==
  /\ Called /\ hist.before.isWaiting /\ ~flight.isWaiting
  /\ NumLt(Int2Num(flight.waitTime), NumAdd(hist.before.waitTimer, LastDt))
  /\ flight.progress = Zero
  /\ RouteOf(flight) # RouteOf(hist.before)

(***************************************************************************)
(* C26: the trail blocks and the legs the flights are on.                  *)
(***************************************************************************)
\* whether trail id's block holds the samples of curve
BlockHolds(m, id, curve) ==
  \A k \in 0..pointsPerPath :
    PositionAt(m.positions, id * (pointsPerPath + 1) + k)
      = getPointsAt(curve, pointsPerPath, k)

\* C26: whenever the trails are visible, the block of every flight (init
\* created the path of each) holds the samples of the leg the flight is on
C26_VisibleTrailIsCurrentLeg ==
  (app.pc = "app" /\ app.paths.curvesVisible) =>
    \A id \in DOMAIN app.allFlights :
      BlockHolds(app.paths, id, app.allFlights[id].curve)

\* trails visible while some block still holds the leg before the swap
C26_StaleTrailShown ==
  /\ app.pc = "app" /\ app.paths.curvesVisible
  /\ \E id \in DOMAIN app.allFlights :
       /\ ~BlockHolds(app.paths, id, app.allFlights[id].curve)
       /\ BlockHolds(app.paths, id, NewFlight(FixtureAt(id), id, WaitTimeCurrent).curve)

(***************************************************************************)
(* C27: the segments drawn over the trail blocks.                          *)
(***************************************************************************)
\* the trail whose block holds vertex j
TrailOf(j) == j \div (pointsPerPath + 1)

\* C27: no drawn segment joins a vertex of one trail's block to a vertex of
\* another trail's block
C27_NoSegmentAcrossBlocks ==
  PathsLive =>
    \A seg \in DrawnSegments(paths) : TrailOf(seg[1]) = TrailOf(seg[2])

\* the segment over the pair (100, 101) is drawn between the break point of
\* trail 0 and the first sample of trail 1, both written
C27_SegmentJoinsNeighbours ==
  /\ PathsLive /\ paths.curvesVisible
  /\ <<pointsPerPath, pointsPerPath + 1>> \in DrawnSegments(paths)
  /\ PositionAt(paths.positions, pointsPerPath) = CurveOfTrail(0).end
  /\ PositionAt(paths.positions, pointsPerPath + 1) = CurveOfTrail(1).start

(***************************************************************************)
(* MatrixPool (MatrixPool.js): a free list of reusable matrices.  Matrices *)
(* are named 1, 2, ... in the order of their creation; made counts them.   *)
(***************************************************************************)
MaxMatrices == 3

MaxPoolSize == 2

\* new MatrixPool(initialSize, maxSize); development tells whether
\* process.env.NODE_ENV is 'development'
NewMatrixPool(initialSize, maxSize, development) ==
  [pool |-> [i \in 1..initialSize |-> i],
   maxSize |-> maxSize,
   borrowed |-> {},
   made |-> initialSize,
   development |-> development]

\* get(): the pool after the call and the matrix returned
get(o) ==
  LET matrix == IF Len(o.pool) > 0 THEN o.pool[Len(o.pool)] ELSE o.made + 1
      popped == IF Len(o.pool) > 0
                THEN [o EXCEPT !.pool = SubSeq(o.pool, 1, Len(o.pool) - 1)]
                ELSE [o EXCEPT !.made = o.made + 1]
  IN  [obj |-> IF o.development THEN [popped EXCEPT !.borrowed = @ \cup {matrix}]
               ELSE popped,
       matrix |-> matrix]

\* release(matrix); matrix = Null is a missing argument
release(o, matrix) ==
  IF matrix = Null THEN o
  ELSE LET q == IF o.development THEN [o EXCEPT !.borrowed = @ \ {matrix}] ELSE o
       IN  IF Len(q.pool) < q.maxSize THEN [q EXCEPT !.pool = Append(q.pool, matrix)]
           ELSE q

\* withMatrix(callback): the callback returns, throws, or hands the matrix
\* back itself before it returns; finally releases in each case
withMatrix(o, callback) ==
  LET got == get(o)
      after == IF callback = "releases" THEN release(got.obj, got.matrix) ELSE got.obj
  IN  release(after, got.matrix)

(***************************************************************************)
(* SpecPool: one MatrixPool under arbitrary calls.  pool.gets lists the    *)
(* matrices get returned since the last release, pool.known the matrices   *)
(* the callers were ever handed (release is passed one of these),          *)
(* pool.out those handed out and not handed back, pool.misused whether     *)
(* some release was of a matrix that was not out.                          *)
(***************************************************************************)
PoolInit ==
  /\ \E initialSize \in 0..MaxPoolSize, development \in BOOLEAN :
       pool = [pc |-> "pool",
               obj |-> NewMatrixPool(initialSize, MaxPoolSize, development),
               gets |-> << >>, known |-> {}, out |-> {}, misused |-> FALSE,
               last |-> "new"]
  /\ geo = Idle /\ flight = Idle /\ hist = Idle /\ planes = Idle /\ gpu = Idle
  /\ call = Idle /\ app = Idle /\ frame = Idle /\ paths = Idle
  /\ glb = Idle /\ loading = Idle

PoolGet ==
  /\ pool.pc = "pool"
  /\ Len(pool.obj.pool) > 0 \/ pool.obj.made < MaxMatrices
  /\ LET got == get(pool.obj)
     IN  pool' = [pool EXCEPT !.obj = got.obj,
                              !.gets = Append(@, got.matrix),
                              !.known = @ \cup {got.matrix},
                              !.out = @ \cup {got.matrix},
                              !.last = "get"]
  /\ UNCHANGED <<geo, flight, hist, planes, gpu, call, app, frame, paths, glb, loading>>

PoolRelease ==
  /\ pool.pc = "pool"
  /\ \E matrix \in pool.known \cup {Null} :
       pool' = [pool EXCEPT !.obj = release(pool.obj, matrix),
                            !.gets = << >>,
                            !.out = @ \ {matrix},
                            !.misused = @ \/ (matrix # Null /\ matrix \notin pool.out),
                            !.last = "release"]
  /\ UNCHANGED <<geo, flight, hist, planes, gpu, call, app, frame, paths, glb, loading>>

PoolWithMatrix ==
  /\ pool.pc = "pool"
  /\ Len(pool.obj.pool) > 0 \/ pool.obj.made < MaxMatrices
  /\ \E callback \in {"returns", "throws", "releases"} :
       pool' = [pool EXCEPT !.obj = withMatrix(pool.obj, callback),
                            !.gets = << >>,
                            !.known = @ \cup {get(pool.obj).matrix},
                            !.out = @ \ {get(pool.obj).matrix},
                            !.misused = @ \/ callback = "releases",
                            !.last = "withMatrix"]
  /\ UNCHANGED <<geo, flight, hist, planes, gpu, call, app, frame, paths, glb, loading>>

PoolNext == PoolGet \/ PoolRelease \/ PoolWithMatrix

SpecPool == PoolInit /\ [][PoolNext]_vars

\* whether no value occurs twice in the sequence
NoRepeats(seq) == \A i, j \in 1..Len(seq) : i # j => seq[i] # seq[j]

\* C30: after any sequence of get, release and withMatrix calls no matrix
\* is in the free list more than once, and the get calls made since the
\* last release returned different matrices
C30_FreeListHasNoDuplicates ==
  pool.pc = "pool" => NoRepeats(pool.obj.pool) /\ NoRepeats(pool.gets)

\* what holds: as long as every release hands back a matrix that is out,
\* the free list and the matrices handed out share nothing and repeat nothing
C30_DisciplinedUseHasNoDuplicates ==
  (pool.pc = "pool" /\ ~pool.misused) =>
    /\ NoRepeats(pool.obj.pool) /\ NoRepeats(pool.gets)
    /\ \A i \in 1..Len(pool.obj.pool) : pool.obj.pool[i] \notin pool.out

\* two get calls in a row returned the same matrix
C30_SameMatrixTwice ==
  /\ pool.pc = "pool" /\ pool.last = "get"
  /\ Len(pool.gets) >= 2
  /\ pool.gets[Len(pool.gets)] = pool.gets[Len(pool.gets) - 1]

(***************************************************************************)
(* GLBPlanes (GLBPlanes.js): loading the model.  waits[i] is the i-th      *)
(* promise a caller waits on: the one loadGLBModel returned (kind "load")  *)
(* or the one addToScene awaits (kind "scene"); loadingCallbacks lists the *)
(* waits whose resolve function was pushed; owner is the wait whose        *)
(* resolve and reject the loader's callbacks of the load in flight hold.   *)
(***************************************************************************)
MaxWaits == 4

MaxLoads == 2

\* new GLBPlanes()
NewGLBPlanes ==
  [isLoaded |-> FALSE, isLoading |-> FALSE, loadingCallbacks |-> << >>,
   waits |-> << >>, owner |-> 0, inScene |-> FALSE]

\* loadGLBModel() called for a wait of the given kind
loadGLBModel(g, kind) ==
  LET id == Len(g.waits) + 1
  IN  IF g.isLoaded
      THEN [g EXCEPT !.waits = Append(@, [kind |-> kind, state |-> "resolved"])]
      ELSE IF g.isLoading
      THEN [g EXCEPT !.waits = Append(@, [kind |-> kind, state |-> "pending"]),
                     !.loadingCallbacks = Append(@, id)]
      ELSE [g EXCEPT !.isLoading = TRUE,
                     !.owner = id,
                     !.waits = Append(@, [kind |-> kind, state |-> "pending"])]

\* addToScene(scene) up to its await; a call that has nothing to wait for
\* goes on to scene.add at once
addToScene(g) ==
  IF ~g.isLoaded /\ ~g.isLoading THEN loadGLBModel(g, "scene")
  ELSE IF g.isLoading
  THEN [g EXCEPT !.waits = Append(@, [kind |-> "scene", state |-> "pending"]),
                 !.loadingCallbacks = Append(@, Len(g.waits) + 1)]
  ELSE [g EXCEPT !.inScene = TRUE]

\* the waits after those of ids are settled as state
Settle(waits, ids, state) ==
  [i \in 1..Len(waits) |-> IF i \in ids THEN [waits[i] EXCEPT !.state = state]
                           ELSE waits[i]]

\* the loader's onLoad callback: the pending callbacks are called and
\* dropped, the load's own promise is resolved, and an addToScene that was
\* waiting adds the mesh
onLoad(g) ==
  LET ids == {g.loadingCallbacks[k] : k \in 1..Len(g.loadingCallbacks)} \cup {g.owner}
  IN  [g EXCEPT !.isLoaded = TRUE,
                !.isLoading = FALSE,
                !.waits = Settle(@, ids, "resolved"),
                !.loadingCallbacks = << >>,
                !.owner = 0,
                !.inScene = @ \/ (\E i \in ids : g.waits[i].kind = "scene")]

\* the loader's onError callback
onError(g) ==
  [g EXCEPT !.isLoading = FALSE,
            !.waits = Settle(@, {g.owner}, "rejected"),
            !.owner = 0]

(***************************************************************************)
(* SpecGlb: callers arrive one after another while the loader works;       *)
(* FairSpecGlb adds that a load in flight ends: the loader calls onLoad or *)
(* onError for every load it was given.                                    *)
(***************************************************************************)
GlbInit ==
  /\ glb = [pc |-> "glb", obj |-> NewGLBPlanes, loads |-> 0, last |-> "new"]
  /\ geo = Idle /\ flight = Idle /\ hist = Idle /\ planes = Idle /\ gpu = Idle
  /\ call = Idle /\ app = Idle /\ frame = Idle /\ paths = Idle
  /\ pool = Idle /\ loading = Idle

\* whether a call made now would start a load
StartsLoad == ~glb.obj.isLoaded /\ ~glb.obj.isLoading

GlbLoadGLBModel ==
  /\ glb.pc = "glb"
  /\ Len(glb.obj.waits) < MaxWaits
  /\ StartsLoad => glb.loads < MaxLoads
  /\ glb' = [glb EXCEPT !.obj = loadGLBModel(glb.obj, "load"),
                        !.loads = @ + (IF StartsLoad THEN 1 ELSE 0),
                        !.last = "loadGLBModel"]
  /\ UNCHANGED <<geo, flight, hist, planes, gpu, call, app, frame, paths, pool, loading>>

GlbAddToScene ==
  /\ glb.pc = "glb"
  /\ Len(glb.obj.waits) < MaxWaits
  /\ StartsLoad => glb.loads < MaxLoads
  /\ glb' = [glb EXCEPT !.obj = addToScene(glb.obj),
                        !.loads = @ + (IF StartsLoad THEN 1 ELSE 0),
                        !.last = "addToScene"]
  /\ UNCHANGED <<geo, flight, hist, planes, gpu, call, app, frame, paths, pool, loading>>

GlbLoaded ==
  /\ glb.pc = "glb"
  /\ glb.obj.isLoading
  /\ glb' = [glb EXCEPT !.obj = onLoad(glb.obj), !.last = "onLoad"]
  /\ UNCHANGED <<geo, flight, hist, planes, gpu, call, app, frame, paths, pool, loading>>

GlbFailed ==
  /\ glb.pc = "glb"
  /\ glb.obj.isLoading
  /\ glb' = [glb EXCEPT !.obj = onError(glb.obj), !.last = "onError"]
  /\ UNCHANGED <<geo, flight, hist, planes, gpu, call, app, frame, paths, pool, loading>>

GlbNext == GlbLoadGLBModel \/ GlbAddToScene \/ GlbLoaded \/ GlbFailed

SpecGlb == GlbInit /\ [][GlbNext]_vars

FairSpecGlb == SpecGlb /\ WF_vars(GlbLoaded \/ GlbFailed)

\* whether wait i exists and is not settled
Pending(i) ==
  glb.pc = "glb" /\ i <= Len(glb.obj.waits) /\ glb.obj.waits[i].state = "pending"

\* C28: every promise returned by loadGLBModel and every wait of addToScene
\* is settled in the end, the loader reporting success or error for every
\* load
C28_EveryWaitSettles ==
  \A i \in 1..MaxWaits : Pending(i) ~> ~Pending(i)

\* C28 on finite runs: with no load in flight no wait is pending
C28_NoWaitOutlivesLoad ==
  (glb.pc = "glb" /\ ~glb.obj.isLoading) => \A i \in 1..MaxWaits : ~Pending(i)

\* what holds: the promise of the call that started the load is settled by
\* the loader's report, and a successful load leaves no wait pending
C28_OwnerSettlesAndSuccessSettlesAll ==
  glb.pc = "glb" =>
    /\ ~glb.obj.isLoading => glb.obj.owner = 0
    /\ glb.last = "onLoad" => \A i \in 1..MaxWaits : ~Pending(i)
    /\ \A i \in 1..MaxWaits :
         Pending(i) =>
           \/ glb.obj.owner = i
           \/ \E k \in 1..Len(glb.obj.loadingCallbacks) : glb.obj.loadingCallbacks[k] = i

\* the loader reported an error while a later caller was waiting: that
\* caller's wait is pending with no load in flight
C28_WaiterLeftAfterError ==
  /\ glb.pc = "glb" /\ glb.last = "onError" /\ ~glb.obj.isLoading
  /\ \E i \in 1..MaxWaits : Pending(i)

(***************************************************************************)
(* The loading screen (main.js): init() shows it, starts the 2-second      *)
(* timer and the Earth's texture load; the later of the two events starts  *)
(* the intro camera animation and the removal of the screen.  Time is      *)
(* counted in steps of 500 ms; timers holds the pending setTimeout calls,  *)
(* each with the time it is due.                                           *)
(***************************************************************************)
MaxTime == 10

\* setTimeout(..., 2000), in steps
MinDisplaySteps == 4

\* setTimeout(() => loadingScreen.remove(), 500), in steps
FadeSteps == 1

\* animateCameraToPosition(..., 2000, 1000): the delay, in steps
CameraDelaySteps == 2

\* the part of init() that sets up the loading screen
NewLoadingScreen ==
  [earthTextureLoaded |-> FALSE,
   minTimeElapsed |-> FALSE,
   timers |-> {[what |-> "minTime", due |-> MinDisplaySteps]},
   texturePending |-> TRUE,
   screen |-> "shown",
   intros |-> 0,
   removals |-> 0,
   camera |-> "still"]

\* removeLoadingScreen() at time now
removeLoadingScreen(l, now) ==
  IF l.screen = "removed" THEN l
  ELSE [l EXCEPT !.screen = "fading",
                 !.timers = @ \cup {[what |-> "fade", due |-> now + FadeSteps]}]

\* setInitialCameraPosition() at time now: the camera animation is
\* scheduled and the loading screen starts to go
setInitialCameraPosition(l, now) ==
  removeLoadingScreen(
    [l EXCEPT !.intros = @ + 1,
              !.timers = @ \cup {[what |-> "camera", due |-> now + CameraDelaySteps]}],
    now)

\* a check that is content with either of the two events
checkReadyToRemoveLoadingScreen_Either(l, now) ==
  IF l.earthTextureLoaded \/ l.minTimeElapsed THEN setInitialCameraPosition(l, now)
  ELSE l

\* checkReadyToRemoveLoadingScreen()
checkReadyToRemoveLoadingScreen(l, now) ==
  IF l.earthTextureLoaded /\ l.minTimeElapsed THEN setInitialCameraPosition(l, now)
  ELSE l

\* the callback of a timer that has come due
TimerCallback(l, timer, now) ==
  LET m == [l EXCEPT !.timers = @ \ {timer}]
  IN  CASE timer.what = "minTime" ->
             checkReadyToRemoveLoadingScreen([m EXCEPT !.minTimeElapsed = TRUE], now)
        [] timer.what = "fade" ->
             [m EXCEPT !.screen = "removed", !.removals = @ + 1]
        [] timer.what = "camera" -> [m EXCEPT !.camera = "moving"]

\* the Earth's onTextureLoaded callback, called by the texture loader's
\* onLoad and by its onError
onTextureLoaded(l, now) ==
  checkReadyToRemoveLoadingScreen(
    [l EXCEPT !.earthTextureLoaded = TRUE, !.texturePending = FALSE], now)

(***************************************************************************)
(* SpecLoading: time passes, timers fire when due or later, the texture    *)
(* loader reports once.  loading.order lists the two events as they came.  *)
(***************************************************************************)
LoadingInit ==
  /\ loading = [pc |-> "loading", obj |-> NewLoadingScreen, now |-> 0,
                order |-> << >>, outcome |-> "none"]
  /\ geo = Idle /\ flight = Idle /\ hist = Idle /\ planes = Idle /\ gpu = Idle
  /\ call = Idle /\ app = Idle /\ frame = Idle /\ paths = Idle
  /\ pool = Idle /\ glb = Idle

LoadingTimePasses ==
  /\ loading.pc = "loading"
  /\ loading.now < MaxTime
  /\ loading' = [loading EXCEPT !.now = @ + 1]
  /\ UNCHANGED <<geo, flight, hist, planes, gpu, call, app, frame, paths, pool, glb>>

LoadingTimerFires ==
  /\ loading.pc = "loading"
  /\ \E timer \in loading.obj.timers :
       /\ timer.due <= loading.now
       /\ loading' = [loading EXCEPT
            !.obj = TimerCallback(loading.obj, timer, loading.now),
            !.order = IF timer.what = "minTime" THEN Append(@, "timer") ELSE @]
  /\ UNCHANGED <<geo, flight, hist, planes, gpu, call, app, frame, paths, pool, glb>>

LoadingTextureReported ==
  /\ loading.pc = "loading"
  /\ loading.obj.texturePending
  /\ \E outcome \in {"load", "error"} :
       loading' = [loading EXCEPT !.obj = onTextureLoaded(loading.obj, loading.now),
                                  !.order = Append(@, "texture"),
                                  !.outcome = outcome]
  /\ UNCHANGED <<geo, flight, hist, planes, gpu, call, app, frame, paths, pool, glb>>

LoadingNext == LoadingTimePasses \/ LoadingTimerFires \/ LoadingTextureReported

SpecLoading == LoadingInit /\ [][LoadingNext]_vars

\* C29: whichever of the 2-second timer and the texture's completion (load
\* or error) comes first, the intro camera animation is started and the
\* loading screen removed once at most, neither before both events have
\* occurred, and the animation is started as soon as both have
C29_IntroOnceAfterBothEvents ==
  loading.pc = "loading" =>
    /\ loading.obj.intros = (IF Len(loading.order) = 2 THEN 1 ELSE 0)
    /\ loading.obj.removals <= 1
    /\ Len(loading.order) < 2 => loading.obj.screen = "shown"
    /\ Len(loading.order) = 2 => loading.obj.screen # "shown"
    /\ loading.obj.removals = 1 <=> loading.obj.screen = "removed"

\* the timer came first, the texture then failed to load, and the screen
\* has been removed after one start of the intro
C29_RemovedAfterTimerThenError ==
  /\ loading.pc = "loading"
  /\ loading.order = <<"timer", "texture">> /\ loading.outcome = "error"
  /\ loading.obj.screen = "removed" /\ loading.obj.intros = 1
  /\ loading.obj.timers = {}


====
